---- MODULE Spec2Model ----
(***************************************************************************)
(* ClanEventBot: the event entity (models/event.py), the team randomizer   *)
(* (services/team_service.py) and the reminder scheduler                   *)
(* (services/reminder_service.py) as a state machine.                      *)
(***************************************************************************)
EXTENDS Integers, Sequences, FiniteSets, TLC

(* ------------------------------ bounds -------------------------------- *)
\* user ids are 1..NumUsers
NumUsers == 3
\* the users who act in the check-in specification are 1..NumCheckInUsers
NumCheckInUsers == 2
\* max_participants of the event under test is drawn from 1..MaxCap
MaxCap == 2
\* the clock of the check-in specification runs over 0..MaxTime
MaxTime == 3
\* the check-in window bounds that enable_check_in is called with
WinStart == 1
WinEnd == 2

Users == 1..NumUsers
CheckInUsers == 1..NumCheckInUsers

(* --------------------------- program values --------------------------- *)
\* Python's None for an Optional[int] / Optional[datetime] field
None == -1

\* utils/constants.py EventStatus
OPEN == "Ouvert"
FULL == "Complet"
IN_PROGRESS == "En cours"
COMPLETED == "Termine"
CANCELLED == "Annule"

VARIABLES
    events,          \* EventService._events: event id -> Event
    now,             \* datetime.utcnow(), in seconds
    last,            \* the last operation called, its argument and its return value
    won,             \* per user, the check-ins that returned True (see CountCheckIns)
    participant_ids, \* the list passed to TeamService.randomize_teams
    team_size,       \* the team_size passed to TeamService.randomize_teams
    rt,              \* the outcome of that call
    event_ids,       \* the keys of EventService._events, in insertion order
    running,         \* ReminderService._running
    task,            \* ReminderService._task: where the loop task stands
    starts,          \* how many loop tasks start() has created
    thread_log,      \* per event, what has been posted to its Discord thread
    loops,           \* how many _reminder_loop tasks are alive
    message_to_event,\* EventService._message_to_event: message id -> event id
    next_message_id, \* the id Discord gives the next message it posts
    posting,         \* the ids of the events whose creation command awaits its message
    views            \* the TeamSizeSelectionViews posted, oldest first

entityVars == <<events, now, last, won>>
teamVars == <<participant_ids, team_size, rt>>
schedVars == <<event_ids, running, task, starts, thread_log, loops>>
indexVars == <<message_to_event, next_message_id, posting>>
vars == <<events, now, last, won, participant_ids, team_size, rt,
          event_ids, running, task, starts, thread_log, loops,
          message_to_event, next_message_id, posting, views>>

(* ------------------------------ helpers ------------------------------- *)
Range(s) == {s[i] : i \in 1..Len(s)}

\* list.remove(x): drops the first occurrence of x (x is in the list)
ListRemove(s, x) ==
    LET i == CHOOSE k \in 1..Len(s) : s[k] = x /\ \A j \in 1..(k - 1) : s[j] # x
    IN  SubSeq(s, 1, i - 1) \o SubSeq(s, i + 1, Len(s))

NoDup(s) == \A i, j \in 1..Len(s) : s[i] = s[j] => i = j

(* ---------------------------- Event entity ---------------------------- *)
\* Event.__init__
NewEvent(creator, max, date) ==
    [ creator_id |-> creator,
      max_participants |-> max,
      event_date |-> date,
      status |-> OPEN,
      participants |-> <<>>,
      checked_in_participants |-> <<>>,
      teams |-> <<>>,
      team_size |-> None,
      thread_id |-> None,
      reminder_sent |-> FALSE,
      check_in_enabled |-> FALSE,
      check_in_start_time |-> None,
      check_in_end_time |-> None ]

participant_count(ev) == Len(ev.participants)

checked_in_count(ev) == Len(ev.checked_in_participants)

is_full(ev) == participant_count(ev) >= ev.max_participants

is_participant(ev, u) == u \in Range(ev.participants)

is_checked_in(ev, u) == u \in Range(ev.checked_in_participants)

\* mutant: the capacity test is left out
add_participant_nocap(ev, u) ==
    IF u \in Range(ev.participants)
    THEN [ret |-> FALSE, ev |-> ev]
    ELSE [ret |-> TRUE, ev |-> [ev EXCEPT !.participants = Append(@, u)]]

\* mutant: a refused join on a full event still marks the event Full
add_participant_marks(ev, u) ==
    IF u \in Range(ev.participants)
    THEN [ret |-> FALSE, ev |-> ev]
    ELSE IF is_full(ev)
    THEN [ret |-> FALSE, ev |-> [ev EXCEPT !.status = FULL]]
    ELSE LET ev1 == [ev EXCEPT !.participants = Append(@, u)]
         IN  [ret |-> TRUE,
              ev |-> IF is_full(ev1) THEN [ev1 EXCEPT !.status = FULL] ELSE ev1]

\* mutant: a join that fills the event leaves the status as it was
add_participant_stays_open(ev, u) ==
    IF u \in Range(ev.participants)
    THEN [ret |-> FALSE, ev |-> ev]
    ELSE IF is_full(ev)
    THEN [ret |-> FALSE, ev |-> ev]
    ELSE [ret |-> TRUE, ev |-> [ev EXCEPT !.participants = Append(@, u)]]

\* Event.add_participant
add_participant(ev, u) ==
    IF u \in Range(ev.participants)
    THEN [ret |-> FALSE, ev |-> ev]
    ELSE IF is_full(ev)
    THEN [ret |-> FALSE, ev |-> ev]
    ELSE LET ev1 == [ev EXCEPT !.participants = Append(@, u)]
         IN  [ret |-> TRUE,
              ev |-> IF is_full(ev1) THEN [ev1 EXCEPT !.status = FULL] ELSE ev1]

\* the loop "for team in self.teams: if user_id in team: team.remove; break"
\* mutant: the leaver stays in the teams
RemoveFromFirstTeam_none(teams, u) == teams

\* mutant: the teams of the leaver are dissolved
RemoveFromFirstTeam_dissolves(teams, u) ==
    SelectSeq(teams, LAMBDA team : u \notin Range(team))

RemoveFromFirstTeam(teams, u) ==
    IF \E i \in 1..Len(teams) : u \in Range(teams[i])
    THEN LET i == CHOOSE k \in 1..Len(teams) :
                      /\ u \in Range(teams[k])
                      /\ \A j \in 1..(k - 1) : u \notin Range(teams[j])
         IN  [teams EXCEPT ![i] = ListRemove(@, u)]
    ELSE teams

\* mutant: the status is not reverted to Open when a full event loses a member
remove_participant_keeps_full(ev, u) ==
    IF u \notin Range(ev.participants)
    THEN [ret |-> FALSE, ev |-> ev]
    ELSE [ret |-> TRUE,
          ev |-> [ev EXCEPT !.participants = ListRemove(@, u),
                            !.teams = RemoveFromFirstTeam(@, u)]]

\* mutant: leaving an event also takes the user off the checked-in list
remove_participant_unchecks(ev, u) ==
    IF u \notin Range(ev.participants)
    THEN [ret |-> FALSE, ev |-> ev]
    ELSE LET ev1 == [ev EXCEPT !.participants = ListRemove(@, u),
                               !.teams = RemoveFromFirstTeam(@, u),
                               !.checked_in_participants =
                                   IF u \in Range(@) THEN ListRemove(@, u) ELSE @]
         IN  [ret |-> TRUE,
              ev |-> IF ev1.status = FULL /\ ~is_full(ev1)
                     THEN [ev1 EXCEPT !.status = OPEN]
                     ELSE ev1]

\* Event.remove_participant
remove_participant(ev, u) ==
    IF u \notin Range(ev.participants)
    THEN [ret |-> FALSE, ev |-> ev]
    ELSE LET ev1 == [ev EXCEPT !.participants = ListRemove(@, u),
                               !.teams = RemoveFromFirstTeam(@, u)]
         IN  [ret |-> TRUE,
              ev |-> IF ev1.status = FULL /\ ~is_full(ev1)
                     THEN [ev1 EXCEPT !.status = OPEN]
                     ELSE ev1]

\* mutant: the end of the window is exclusive
check_in_participant_strict(ev, u, t) ==
    IF /\ is_participant(ev, u)
       /\ ev.check_in_enabled
       /\ ~(ev.check_in_start_time # None /\ t < ev.check_in_start_time)
       /\ ~(ev.check_in_end_time # None /\ t >= ev.check_in_end_time)
       /\ u \notin Range(ev.checked_in_participants)
    THEN [ret |-> TRUE, ev |-> [ev EXCEPT !.checked_in_participants = Append(@, u)]]
    ELSE [ret |-> FALSE, ev |-> ev]

\* mutant: the "already checked in" test is left out
check_in_participant_again(ev, u, t) ==
    IF /\ is_participant(ev, u)
       /\ ev.check_in_enabled
       /\ ~(ev.check_in_start_time # None /\ t < ev.check_in_start_time)
       /\ ~(ev.check_in_end_time # None /\ t > ev.check_in_end_time)
    THEN [ret |-> TRUE, ev |-> [ev EXCEPT !.checked_in_participants = Append(@, u)]]
    ELSE [ret |-> FALSE, ev |-> ev]

\* Event.check_in_participant, called at time t
check_in_participant(ev, u, t) ==
    IF ~is_participant(ev, u)
    THEN [ret |-> FALSE, ev |-> ev]
    ELSE IF ~ev.check_in_enabled
    THEN [ret |-> FALSE, ev |-> ev]
    ELSE IF ev.check_in_start_time # None /\ t < ev.check_in_start_time
    THEN [ret |-> FALSE, ev |-> ev]
    ELSE IF ev.check_in_end_time # None /\ t > ev.check_in_end_time
    THEN [ret |-> FALSE, ev |-> ev]
    ELSE IF u \in Range(ev.checked_in_participants)
    THEN [ret |-> FALSE, ev |-> ev]
    ELSE [ret |-> TRUE, ev |-> [ev EXCEPT !.checked_in_participants = Append(@, u)]]

\* Event.check_out_participant
check_out_participant(ev, u) ==
    IF u \notin Range(ev.checked_in_participants)
    THEN [ret |-> FALSE, ev |-> ev]
    ELSE [ret |-> TRUE, ev |-> [ev EXCEPT !.checked_in_participants = ListRemove(@, u)]]

\* Event.enable_check_in
enable_check_in(ev, start_time, end_time) ==
    [ev EXCEPT !.check_in_enabled = TRUE,
               !.check_in_start_time = start_time,
               !.check_in_end_time = end_time]

\* Event.disable_check_in
disable_check_in(ev) == [ev EXCEPT !.check_in_enabled = FALSE]

\* Event.is_check_in_active, called at time t
is_check_in_active(ev, t) ==
    IF ~ev.check_in_enabled THEN FALSE
    ELSE IF ev.check_in_start_time # None /\ t < ev.check_in_start_time THEN FALSE
    ELSE IF ev.check_in_end_time # None /\ t > ev.check_in_end_time THEN FALSE
    ELSE TRUE

(* --------------------------- Team randomizer -------------------------- *)
\* utils/constants.py VALID_TEAM_SIZES, the literal list of randomize_teams
VALID_TEAM_SIZES == {1, 2, 3, 4, 6}

\* random.shuffle: every arrangement of the list is a possible outcome
RECURSIVE Shuffles(_)
Shuffles(s) ==
    IF s = <<>> THEN {<<>>}
    ELSE UNION { { <<s[i]>> \o p :
                   p \in Shuffles(SubSeq(s, 1, i - 1) \o SubSeq(s, i + 1, Len(s))) } :
                 i \in 1..Len(s) }

\* mutant: the chunks advance by one id, not by team_size
RECURSIVE CompleteTeams_sliding(_, _, _)
CompleteTeams_sliding(shuffled, size, i) ==
    IF i >= Len(shuffled) THEN <<>>
    ELSE LET hi == IF i + size <= Len(shuffled) THEN i + size ELSE Len(shuffled)
             team == SubSeq(shuffled, i + 1, hi)
         IN  (IF Len(team) = size THEN <<team>> ELSE <<>>)
             \o CompleteTeams_sliding(shuffled, size, i + 1)

\* "for i in range(0, len(shuffled), team_size): team = shuffled[i:i + team_size];
\*  if len(team) == team_size: teams.append(team)", from offset i (0-based)
RECURSIVE CompleteTeams(_, _, _)
CompleteTeams(shuffled, size, i) ==
    IF i >= Len(shuffled) THEN <<>>
    ELSE LET hi == IF i + size <= Len(shuffled) THEN i + size ELSE Len(shuffled)
             team == SubSeq(shuffled, i + 1, hi)
         IN  (IF Len(team) = size THEN <<team>> ELSE <<>>)
             \o CompleteTeams(shuffled, size, i + size)

Returned(teams, ids) == [state |-> "returned", teams |-> teams, ids |-> ids]
Raised(ids) == [state |-> "raised", teams |-> <<>>, ids |-> ids]

\* mutant: the last, incomplete chunk is returned as a team too
RECURSIVE AllChunks(_, _, _)
AllChunks(shuffled, size, i) ==
    IF i >= Len(shuffled) THEN <<>>
    ELSE LET hi == IF i + size <= Len(shuffled) THEN i + size ELSE Len(shuffled)
         IN  <<SubSeq(shuffled, i + 1, hi)>> \o AllChunks(shuffled, size, i + size)

randomize_teams_partial(ids, size, shuffled) ==
    IF ids = <<>> THEN Raised(ids)
    ELSE IF size \notin VALID_TEAM_SIZES THEN Raised(ids)
    ELSE IF size > 1 /\ Len(ids) < size THEN Raised(ids)
    ELSE Returned(AllChunks(shuffled, size, 0), ids)

\* mutant: the participant-count test also applies to teams of one and is strict
randomize_teams_strict(ids, size, shuffled) ==
    IF ids = <<>> THEN Raised(ids)
    ELSE IF size \notin VALID_TEAM_SIZES THEN Raised(ids)
    ELSE IF Len(ids) <= size THEN Raised(ids)
    ELSE Returned(CompleteTeams(shuffled, size, 0), ids)

\* TeamService.randomize_teams; shuffled is what random.shuffle made of the copy.
\* ids is the caller's list after the call (the shuffle works on a copy).
randomize_teams(ids, size, shuffled) ==
    IF ids = <<>> THEN Raised(ids)
    ELSE IF size \notin VALID_TEAM_SIZES THEN Raised(ids)
    ELSE IF Len(ids) < 1 THEN Raised(ids)
    ELSE IF size > 1 /\ Len(ids) < size THEN Raised(ids)
    ELSE Returned(CompleteTeams(shuffled, size, 0), ids)

\* "for i, participant in enumerate(remaining_participants): if teams:
\*  teams[i % len(teams)].append(participant)", from index i (0-based)
RECURSIVE Distribute(_, _, _)
Distribute(teams, remaining, i) ==
    IF i >= Len(remaining) \/ teams = <<>> THEN teams
    ELSE Distribute([teams EXCEPT ![(i % Len(teams)) + 1] = Append(@, remaining[i + 1])],
                    remaining, i + 1)

\* TeamService.create_balanced_teams; shuffled is what random.shuffle made of
\* the copy
create_balanced_teams(ids, size, allow_incomplete, shuffled) ==
    IF ids = <<>> THEN Raised(ids)
    ELSE IF size \notin VALID_TEAM_SIZES THEN Raised(ids)
    ELSE LET complete_teams_count == Len(shuffled) \div size
             teams == [i \in 1..complete_teams_count |->
                          SubSeq(shuffled, (i - 1) * size + 1, i * size)]
             remaining == SubSeq(shuffled, complete_teams_count * size + 1, Len(shuffled))
         IN  IF remaining # <<>> /\ allow_incomplete
             THEN Returned(Append(teams, remaining), ids)
             ELSE IF remaining # <<>>
             THEN Returned(Distribute(teams, remaining, 0), ids)
             ELSE Returned(teams, ids)

\* TeamCommands.team_stats: "total_players = sum(len(team) for team in
\* event.teams); unassigned_players = len(event.participants) - total_players"
RECURSIVE total_players(_)
total_players(teams) ==
    IF teams = <<>> THEN 0 ELSE Len(Head(teams)) + total_players(Tail(teams))

unassigned_players(ev) == Len(ev.participants) - total_players(ev.teams)

(* ------------------- operations on the event under test --------------- *)
\* the id of the one stored event of the entity specifications
E1 == "e1"

Op(name, u, r) == [op |-> name, user |-> u, ret |-> r, note |-> "", event_id |-> ""]

NoWins == [u \in Users |-> FALSE]

\* Bookkeeping for "while the check-in window stays active": the users for whom
\* a check_in_participant call has returned True since the window became
\* active; it restarts when the window is found inactive.
CountCheckIns(w, ev2, t2, name, u, r) ==
    IF ~is_check_in_active(ev2, t2) THEN NoWins
    ELSE IF name = "check_in_participant" /\ r
    THEN [w EXCEPT ![u] = TRUE]
    ELSE w

\* no loop task: ReminderService.__init__, or a task that has ended
\* size is the number of entries the dict iterator of the scan started with,
\* event the event a suspended _send_event_reminder holds
NoTask == [pc |-> "none", it |-> 0, scan_now |-> 0, wake_at |-> 0, io |-> "none",
           size |-> 0, event |-> ""]

NoPosts == [reminders |-> 0, prompts |-> 0, rosters |-> 0]

\* EventService.__init__: the empty message index; no message posted yet
InitIndex ==
    /\ message_to_event = <<>>
    /\ next_message_id = 1
    /\ posting = {}

\* no team-size prompt has been posted
InitViews == views = <<>>

\* ReminderService.__init__, and nothing posted yet
InitSchedIdle ==
    /\ running = FALSE
    /\ task = NoTask
    /\ starts = 0
    /\ thread_log = [e \in {E1} |-> NoPosts]
    /\ loops = 0
    /\ InitIndex
    /\ InitViews

InitRest ==
    /\ now = 0
    /\ last = Op("init", 0, TRUE)
    /\ won = NoWins
    /\ participant_ids = <<>>
    /\ team_size = 0
    /\ rt = [state |-> "idle", teams |-> <<>>, arg |-> <<>>]
    /\ event_ids = <<E1>>
    /\ InitSchedIdle

\* one new event, of any capacity up to MaxCap
InitEntity ==
    /\ \E max \in 1..MaxCap : events = [e \in {E1} |-> NewEvent(1, max, None)]
    /\ InitRest

\* one new event of capacity MaxCap
InitCheckIn ==
    /\ events = [e \in {E1} |-> NewEvent(1, MaxCap, None)]
    /\ InitRest

\* a mutator that answers True to an id get_event does not find
UnknownEvent_accepts(name, e, u) ==
    /\ last' = [Op(name, u, TRUE) EXCEPT !.event_id = e]
    /\ UNCHANGED <<events, won>>

\* the mutator was called with an id get_event does not find: it returns False
UnknownEvent(name, e, u) ==
    /\ last' = [Op(name, u, FALSE) EXCEPT !.event_id = e]
    /\ UNCHANGED <<events, won>>

\* EventService.add_participant
AddParticipant(e, u) ==
    LET r == add_participant(events[e], u)
        refill == last.op = "remove_participant" /\ last.note = "left full event"
                  /\ last.user = u
    IN
    /\ IF e \notin DOMAIN events THEN UnknownEvent("add_participant", e, u)
       ELSE /\ events' = [events EXCEPT ![e] = r.ev]
            /\ last' = [Op("add_participant", u, r.ret) EXCEPT
                           !.note = IF refill THEN "rejoined" ELSE "",
                           !.event_id = e]
            /\ won' = CountCheckIns(won, r.ev, now, "add_participant", u, r.ret)
    /\ UNCHANGED <<now, teamVars, schedVars, indexVars, views>>

\* EventService.remove_participant
RemoveParticipant(e, u) ==
    LET ev == events[e]
        r == remove_participant(ev, u)
        wasFull == r.ret /\ ev.status = FULL
                   /\ participant_count(ev) = ev.max_participants
    IN
    /\ IF e \notin DOMAIN events THEN UnknownEvent("remove_participant", e, u)
       ELSE /\ events' = [events EXCEPT ![e] = r.ev]
            /\ last' = [Op("remove_participant", u, r.ret) EXCEPT
                           !.note = IF wasFull THEN "left full event" ELSE "",
                           !.event_id = e]
            /\ won' = CountCheckIns(won, r.ev, now, "remove_participant", u, r.ret)
    /\ UNCHANGED <<now, teamVars, schedVars, indexVars, views>>

\* EventService.check_in_participant
CheckInParticipant(e, u) ==
    LET r == check_in_participant(events[e], u, now) IN
    /\ IF e \notin DOMAIN events THEN UnknownEvent("check_in_participant", e, u)
       ELSE /\ events' = [events EXCEPT ![e] = r.ev]
            /\ last' = [Op("check_in_participant", u, r.ret) EXCEPT !.event_id = e]
            /\ won' = CountCheckIns(won, r.ev, now, "check_in_participant", u, r.ret)
    /\ UNCHANGED <<now, teamVars, schedVars, indexVars, views>>

\* EventService.check_out_participant
CheckOutParticipant(e, u) ==
    LET r == check_out_participant(events[e], u) IN
    /\ IF e \notin DOMAIN events THEN UnknownEvent("check_out_participant", e, u)
       ELSE /\ events' = [events EXCEPT ![e] = r.ev]
            /\ last' = [Op("check_out_participant", u, r.ret) EXCEPT !.event_id = e]
            /\ won' = CountCheckIns(won, r.ev, now, "check_out_participant", u, r.ret)
    /\ UNCHANGED <<now, teamVars, schedVars, indexVars, views>>

\* EventService.enable_check_in
EnableCheckIn(e, s, t) ==
    /\ IF e \notin DOMAIN events THEN UnknownEvent("enable_check_in", e, 0)
       ELSE /\ events' = [events EXCEPT ![e] = enable_check_in(@, s, t)]
            /\ last' = [Op("enable_check_in", 0, TRUE) EXCEPT !.event_id = e]
            /\ won' = CountCheckIns(won, events'[e], now, "enable_check_in", 0, TRUE)
    /\ UNCHANGED <<now, teamVars, schedVars, indexVars, views>>

\* EventService.disable_check_in
DisableCheckIn(e) ==
    /\ IF e \notin DOMAIN events THEN UnknownEvent("disable_check_in", e, 0)
       ELSE /\ events' = [events EXCEPT ![e] = disable_check_in(@)]
            /\ last' = [Op("disable_check_in", 0, TRUE) EXCEPT !.event_id = e]
            /\ won' = CountCheckIns(won, events'[e], now, "disable_check_in", 0, TRUE)
    /\ UNCHANGED <<now, teamVars, schedVars, indexVars, views>>

\* EventService.update_event_status
UpdateEventStatus(e, s) ==
    /\ IF e \notin DOMAIN events
       THEN /\ last' = [Op("update_event_status", 0, FALSE) EXCEPT
                           !.event_id = e]
            /\ UNCHANGED events
       ELSE /\ events' = [events EXCEPT ![e].status = s]
            /\ last' = [Op("update_event_status", 0, TRUE) EXCEPT !.event_id = e]
    /\ UNCHANGED <<now, won, teamVars, schedVars, indexVars, views>>

\* TeamCommands.randomize_teams / slash_randomize_teams, for an event that exists
\* and a caller who may manage it
RandomizeTeamsCommand(e, size) ==
    LET ev == events[e] IN
    /\ \E shuffled \in Shuffles(ev.participants) :
          LET r == randomize_teams(ev.participants, size, shuffled)
              done == ev.participants # <<>> /\ r.state = "returned" /\ r.teams # <<>>
          IN  /\ events' = [events EXCEPT ![e] =
                    IF ev.participants = <<>> THEN ev
                    ELSE IF done
                    THEN [ev EXCEPT !.participants = r.ids,
                                    !.teams = r.teams,
                                    !.team_size = size]
                    ELSE [ev EXCEPT !.participants = r.ids]]
              /\ last' = Op("randomize_teams", 0, done)
    /\ UNCHANGED <<now, won, teamVars, schedVars, indexVars, views>>

\* TeamCommands.clear_teams / slash_clear_teams
ClearTeamsCommand(e) ==
    /\ events' = [events EXCEPT ![e].teams = <<>>, ![e].team_size = None]
    /\ last' = Op("clear_teams", 0, TRUE)
    /\ UNCHANGED <<now, won, teamVars, schedVars, indexVars, views>>

\* wall-clock time passes
Tick ==
    /\ now < MaxTime
    /\ now' = now + 1
    /\ last' = Op("tick", 0, TRUE)
    /\ won' = CountCheckIns(won, events[E1], now + 1, "tick", 0, TRUE)
    /\ UNCHANGED <<events, teamVars, schedVars, indexVars, views>>

\* joining, leaving, status overrides and team commands on one event
NextEntity ==
    \/ \E u \in Users : AddParticipant(E1, u)
    \/ \E u \in Users : RemoveParticipant(E1, u)
    \/ \E s \in {OPEN, FULL, IN_PROGRESS, COMPLETED, CANCELLED} : UpdateEventStatus(E1, s)
    \/ \E size \in VALID_TEAM_SIZES : RandomizeTeamsCommand(E1, size)
    \/ ClearTeamsCommand(E1)

SpecEntity == InitEntity /\ [][NextEntity]_vars

\* a new event that users only join and leave
NextJoinLeave ==
    \/ \E u \in Users : AddParticipant(E1, u)
    \/ \E u \in Users : RemoveParticipant(E1, u)

\* max_participants of the event that is only joined and left: 1..MaxSeats
MaxSeats == 3

InitJoinLeave ==
    /\ \E max \in 1..MaxSeats : events = [e \in {E1} |-> NewEvent(1, max, None)]
    /\ InitRest

SpecJoinLeave == InitJoinLeave /\ [][NextJoinLeave]_vars

\* joining, leaving and the check-in operations on one event, as time passes
NextCheckIn ==
    \/ \E u \in CheckInUsers : AddParticipant(E1, u)
    \/ \E u \in CheckInUsers : RemoveParticipant(E1, u)
    \/ \E u \in CheckInUsers : CheckInParticipant(E1, u)
    \/ \E u \in CheckInUsers : CheckOutParticipant(E1, u)
    \/ \E s \in {None, WinStart}, t \in {None, WinEnd} : EnableCheckIn(E1, s, t)
    \/ DisableCheckIn(E1)
    \/ Tick

SpecCheckIn == InitCheckIn /\ [][NextCheckIn]_vars

(* ------------------------ randomize_teams, called --------------------- *)
\* the argument lists tried: every list over 1..MaxDupLen of length <= MaxDupLen
\* (duplicates included) and the lists <<1, ..., n>> for n <= MaxIds
MaxDupLen == 3
MaxIds == 6
\* team_size is drawn from 0..MaxTeamSize
MaxTeamSize == 7

RECURSIVE ListsUpTo(_, _)
ListsUpTo(S, n) ==
    IF n = 0 THEN {<<>>}
    ELSE LET shorter == ListsUpTo(S, n - 1)
         IN  shorter \cup {Append(l, x) : l \in {m \in shorter : Len(m) = n - 1}, x \in S}

InputLists ==
    ListsUpTo(1..MaxDupLen, MaxDupLen) \cup {[i \in 1..n |-> i] : n \in 0..MaxIds}

InitTeams ==
    /\ participant_ids \in InputLists
    /\ team_size \in 0..MaxTeamSize
    /\ rt = [state |-> "called", teams |-> <<>>, arg |-> participant_ids]
    /\ events = [e \in {E1} |-> NewEvent(1, 1, None)]
    /\ now = 0
    /\ last = Op("init", 0, TRUE)
    /\ won = NoWins
    /\ event_ids = <<E1>>
    /\ InitSchedIdle

RandomizeTeamsCall ==
    /\ rt.state = "called"
    /\ \E shuffled \in Shuffles(participant_ids) :
          LET r == randomize_teams(participant_ids, team_size, shuffled) IN
          /\ rt' = [state |-> r.state, teams |-> r.teams, arg |-> participant_ids]
          /\ participant_ids' = r.ids
    /\ UNCHANGED <<team_size, entityVars, schedVars, indexVars, views>>

NextTeams == RandomizeTeamsCall

SpecTeams == InitTeams /\ [][NextTeams]_vars

(* --------------------- create_balanced_teams, called ------------------ *)
InitBalanced ==
    /\ participant_ids \in InputLists
    /\ team_size \in 0..MaxTeamSize
    /\ \E allow_incomplete \in BOOLEAN :
          rt = [state |-> "called", teams |-> <<>>, arg |-> participant_ids,
                allow_incomplete |-> allow_incomplete]
    /\ events = [e \in {E1} |-> NewEvent(1, 1, None)]
    /\ now = 0
    /\ last = Op("init", 0, TRUE)
    /\ won = NoWins
    /\ event_ids = <<E1>>
    /\ InitSchedIdle

CreateBalancedTeamsCall ==
    /\ rt.state = "called"
    /\ \E shuffled \in Shuffles(participant_ids) :
          LET r == create_balanced_teams(participant_ids, team_size,
                                         rt.allow_incomplete, shuffled) IN
          /\ rt' = [rt EXCEPT !.state = r.state, !.teams = r.teams]
          /\ participant_ids' = r.ids
    /\ UNCHANGED <<team_size, entityVars, schedVars, indexVars, views>>

NextBalanced == CreateBalancedTeamsCall

SpecBalanced == InitBalanced /\ [][NextBalanced]_vars

(* ------------------------- the reminder scheduler --------------------- *)
\* Time is counted in seconds. The loop task runs on one asyncio event loop:
\* between two awaits it runs without interruption, so no other action is
\* taken while the task is inside a scan (Busy); at an await (fetch_channel,
\* thread.send, sleep) anything else may run, stop() included.
REMINDER_WINDOW_MIN == 30
REMINDER_WINDOW_MAX == 180
SCAN_INTERVAL == 15
\* "except Exception" in _reminder_loop: await asyncio.sleep(60)
ERROR_BACKOFF == 60

\* the clock advances by Step seconds at a time, up to Horizon
Step == 30
Horizon == 210
\* the scheduled dates tried: inside the window at time 0, and more than three
\* minutes ahead at time 0
DateSoon == 90
DateLater == 210
\* start() creates at most MaxStarts loop tasks
MaxStarts == 2
\* the events of the scheduler specifications hold up to MaxJoined participants
MaxJoined == 2

E2 == "e2"
SchedEvents == {E1, E2}
\* the id of a Discord thread created for an event
THREAD == 1

\* the window test with the upper bound of ten minutes
InReminderWindow_wide(ev, t) ==
    /\ REMINDER_WINDOW_MIN <= ev.event_date - t
    /\ ev.event_date - t <= 600

\* mutant: the window has no lower bound
InReminderWindow_late(ev, t) ==
    ev.event_date - t <= REMINDER_WINDOW_MAX

\* timedelta(seconds=30) <= event.event_date - now <= timedelta(minutes=3)
InReminderWindow(ev, t) ==
    /\ REMINDER_WINDOW_MIN <= ev.event_date - t
    /\ ev.event_date - t <= REMINDER_WINDOW_MAX

\* the scan's test without the reminder_sent latch
ShouldRemind_nolatch(ev, t) ==
    /\ ev.event_date # None
    /\ InReminderWindow(ev, t)

\* _check_upcoming_events: the event is not skipped and is in the window
ShouldRemind(ev, t) ==
    /\ ~(ev.event_date = None \/ ev.reminder_sent)
    /\ InReminderWindow(ev, t)

\* mutant: the prompt is sent whatever the teams and the participants
WantsTeamPrompt_always(ev) == TRUE

\* _send_team_creation_request: the prompt is sent
WantsTeamPrompt(ev) ==
    /\ ev.teams = <<>>
    /\ ~(Len(ev.participants) < 2)

\* TeamSizeSelectionView(event, bot): timeout: float = 300.0
VIEW_TIMEOUT == 300

\* TeamSizeSelectionView.__init__ for event e, the view sent at time t: the
\* library starts the timeout when the message is sent; view.message is
\* assigned when the sender resumes
NewView(e, t) ==
    [ event |-> e,
      state |-> "live",
      responded |-> FALSE,
      selected_size |-> None,
      disabled |-> FALSE,
      expires_at |-> t + VIEW_TIMEOUT,
      message |-> FALSE,
      handlers |-> <<>> ]

\* the loop task is inside a scan, between two awaits
Busy == task.pc = "next"

\* the task is suspended in an await of _send_event_reminder
AwaitingIO == task.pc \in {"await_fetch", "await_send", "await_prompt"}

\* the event the scan is looking at
Current == IF AwaitingIO THEN task.event ELSE event_ids[task.it]

\* users 1..k have joined a new event
RECURSIVE Joined(_, _)
Joined(ev, k) ==
    IF k = 0 THEN ev ELSE add_participant(Joined(ev, k - 1), k).ev

\* an event as the commands leave it: scheduled or not, its thread created or
\* not, joined by k users, its teams drawn or not
SchedEvent(date, thread, k, teams) ==
    [Joined(NewEvent(1, MaxJoined, date), k) EXCEPT
        !.thread_id = thread,
        !.teams = teams,
        !.team_size = IF teams = <<>> THEN None ELSE Len(teams[1])]

SchedEventConfigs ==
    {SchedEvent(date, thread, k, <<>>) :
        date \in {None, DateSoon, DateLater}, thread \in {None, THREAD},
        k \in 0..MaxJoined}
    \cup {SchedEvent(date, THREAD, 2, <<<<1, 2>>>>) : date \in {DateSoon, DateLater}}

InitSched ==
    /\ event_ids = <<E1, E2>>
    /\ events \in [SchedEvents -> SchedEventConfigs]
    /\ now = 0
    /\ last = Op("init", 0, TRUE)
    /\ won = NoWins
    /\ participant_ids = <<>>
    /\ team_size = 0
    /\ rt = [state |-> "idle", teams |-> <<>>, arg |-> <<>>]
    /\ running = FALSE
    /\ task = NoTask
    /\ starts = 0
    /\ thread_log = [e \in SchedEvents |-> NoPosts]
    /\ loops = 0
    /\ InitIndex
    /\ InitViews

\* start without the test of _running: a loop task is created on every call
Start_unguarded ==
    /\ ~Busy
    /\ starts < MaxStarts
    /\ running' = TRUE
    /\ task' = [NoTask EXCEPT !.pc = "created"]
    /\ starts' = starts + 1
    /\ loops' = loops + 1
    /\ UNCHANGED <<event_ids, thread_log, entityVars, teamVars, indexVars, views>>

\* ReminderService.start
Start ==
    /\ ~Busy
    /\ starts < MaxStarts
    /\ ~running
    /\ running' = TRUE
    /\ task' = [NoTask EXCEPT !.pc = "created"]
    /\ starts' = starts + 1
    /\ loops' = loops + 1
    /\ UNCHANGED <<event_ids, thread_log, entityVars, teamVars, indexVars, views>>

\* ReminderService.stop: the task is cancelled where it is suspended; the
\* CancelledError raised there is not an Exception, so no handler of the loop
\* or of _send_event_reminder catches it and the task ends
Stop ==
    /\ ~Busy
    /\ running \/ task.pc # "none"
    /\ running' = FALSE
    /\ task' = NoTask
    /\ loops' = IF task.pc # "none" THEN loops - 1 ELSE loops
    /\ UNCHANGED <<event_ids, starts, thread_log, entityVars, teamVars, indexVars, views>>

\* mutant: the latch is set only when the notification went out
Latch_if_posted ==
    /\ events' = IF thread_log[Current].reminders > 0
                 THEN [events EXCEPT ![Current].reminder_sent = TRUE]
                 ELSE events
    /\ task' = [task EXCEPT !.pc = "next", !.it = @ + 1, !.io = "none",
                            !.event = ""]

\* event.reminder_sent = True, and the for loop moves to the next event
Latch ==
    /\ events' = [events EXCEPT ![Current].reminder_sent = TRUE]
    /\ task' = [task EXCEPT !.pc = "next", !.it = @ + 1, !.io = "none",
                            !.event = ""]

\* mutant: the failure of a send propagates out of the scan
Caught_propagates ==
    /\ task' = [NoTask EXCEPT !.pc = "sleep", !.wake_at = now + ERROR_BACKOFF]
    /\ UNCHANGED events

\* "except Exception" of _send_event_reminder and of
\* _send_team_creation_request: the failure is logged and the call returns
Caught == Latch

\* _send_event_reminder once the thread is at hand
WithThread ==
    IF events[Current].participants = <<>>
    THEN Latch
    ELSE /\ task' = [task EXCEPT !.pc = "await_send", !.io = "pending",
                                 !.event = Current]
         /\ UNCHANGED events

\* mutant: an exception that escapes a scan ends the loop task
ScanRaised_ends ==
    /\ task' = NoTask
    /\ UNCHANGED events

\* _reminder_loop, "except Exception": the dict iterator of the scan found
\* the registry changed in size and raised RuntimeError; the loop logs it and
\* sleeps 60 s
ScanRaised ==
    /\ task' = [NoTask EXCEPT !.pc = "sleep", !.wake_at = now + ERROR_BACKOFF]
    /\ UNCHANGED events

\* _reminder_loop: a new task begins, or asyncio.sleep(15) is over; the loop
\* tests _running and _check_upcoming_events reads the clock
BeginScan ==
    /\ \/ task.pc = "created"
       \/ task.pc = "sleep" /\ now >= task.wake_at
    /\ IF running
       THEN /\ task' = [task EXCEPT !.pc = "next", !.it = 1, !.scan_now = now,
                                    !.wake_at = 0, !.size = Len(event_ids)]
            /\ UNCHANGED loops
       ELSE /\ task' = NoTask
            /\ loops' = loops - 1
    /\ UNCHANGED <<events, now, last, won, event_ids, running, starts,
                   thread_log, teamVars, indexVars, views>>

\* _check_upcoming_events: one turn of the for loop, up to the first await of
\* _send_event_reminder; after the last event, asyncio.sleep(15)
ScanNext ==
    /\ task.pc = "next"
    /\ IF Len(event_ids) # task.size
       THEN ScanRaised
       ELSE IF task.it > Len(event_ids)
       THEN /\ task' = [task EXCEPT !.pc = "sleep", !.it = 0, !.scan_now = 0,
                                    !.wake_at = now + SCAN_INTERVAL, !.size = 0]
            /\ UNCHANGED events
       ELSE IF ~ShouldRemind(events[Current], task.scan_now)
       THEN /\ task' = [task EXCEPT !.it = @ + 1]
            /\ UNCHANGED events
       ELSE IF events[Current].thread_id = None
       THEN Latch
       ELSE \E cached \in BOOLEAN :
              IF cached
              THEN WithThread
              ELSE /\ task' = [task EXCEPT !.pc = "await_fetch", !.io = "pending",
                                           !.event = Current]
                   /\ UNCHANGED events
    /\ UNCHANGED <<now, last, won, event_ids, running, starts, thread_log,
                   loops, teamVars, indexVars, views>>

\* Discord answers the request in flight: bot.fetch_channel finds the thread
\* or raises; thread.send posts the message or raises
Deliver ==
    /\ AwaitingIO
    /\ task.io = "pending"
    /\ \E ok \in BOOLEAN :
          /\ task' = [task EXCEPT !.io = IF ok THEN "ok" ELSE "err"]
          /\ thread_log' =
                IF ok /\ task.pc = "await_send"
                THEN [thread_log EXCEPT ![Current].reminders = @ + 1]
                ELSE IF ok /\ task.pc = "await_prompt"
                THEN [thread_log EXCEPT ![Current].prompts = @ + 1]
                ELSE thread_log
          /\ views' = IF ok /\ task.pc = "await_prompt"
                      THEN Append(views, NewView(Current, now))
                      ELSE views
    /\ UNCHANGED <<event_ids, running, starts, loops, entityVars, teamVars,
                   indexVars>>

\* _send_event_reminder resumes after await self.bot.fetch_channel(...)
FetchDone ==
    /\ task.pc = "await_fetch"
    /\ task.io \in {"ok", "err"}
    /\ IF task.io = "err" THEN Caught ELSE WithThread
    /\ UNCHANGED <<now, last, won, event_ids, running, starts, thread_log,
                   loops, teamVars, indexVars, views>>

\* _send_event_reminder resumes after await thread.send(reminder_message) and
\* enters _send_team_creation_request
SendDone ==
    /\ task.pc = "await_send"
    /\ task.io \in {"ok", "err"}
    /\ IF task.io = "err" THEN Caught
       ELSE IF WantsTeamPrompt(events[Current])
       THEN /\ task' = [task EXCEPT !.pc = "await_prompt", !.io = "pending"]
            /\ UNCHANGED events
       ELSE Latch
    /\ UNCHANGED <<now, last, won, event_ids, running, starts, thread_log,
                   loops, teamVars, indexVars, views>>

\* mutant: the sender also waits until the view it posted has finished
PromptReturned_waits ==
    /\ task.io \in {"ok", "err"}
    /\ \A i \in 1..Len(views) : views[i].state # "live"

\* await thread.send(embed=embed, view=view) is over: Discord has answered
PromptReturned == task.io \in {"ok", "err"}

\* _send_team_creation_request resumes after await thread.send(embed, view)
PromptDone ==
    /\ task.pc = "await_prompt"
    /\ PromptReturned
    /\ IF task.io = "err" THEN Caught ELSE Latch
    /\ views' = IF task.io = "ok"
                THEN [views EXCEPT ![Len(views)].message = TRUE]
                ELSE views
    /\ UNCHANGED <<now, last, won, event_ids, running, starts, thread_log,
                   loops, teamVars, indexVars>>

\* datetime.utcnow() moves on while the loop task is suspended
Advance ==
    /\ ~Busy
    /\ now + Step <= Horizon
    /\ now' = now + Step
    /\ UNCHANGED <<events, last, won, teamVars, schedVars, indexVars, views>>

\* the scheduler started once and left running
NextRun ==
    \/ Start
    \/ BeginScan
    \/ ScanNext
    \/ Deliver
    \/ FetchDone
    \/ SendDone
    \/ PromptDone
    \/ Advance

SpecRun == InitSched /\ [][NextRun]_vars

\* the scheduler started, stopped and started again
NextSched ==
    \/ NextRun
    \/ Stop

SpecSched == InitSched /\ [][NextSched]_vars

\* ---- a thread or participants that arrive while the event is in the window

\* the creation command, after its message is posted: the thread of the event
\* is created and event.thread_id = thread.id
CreateThread(e) ==
    /\ e \in DOMAIN events
    /\ events[e].thread_id = None
    /\ events' = [events EXCEPT ![e].thread_id = THREAD]
    /\ last' = [Op("create_thread", 0, TRUE) EXCEPT !.event_id = e]
    /\ UNCHANGED <<now, won, teamVars, schedVars, indexVars, views>>

\* events about to start, with or without a thread, joined by nobody or by
\* one user
LateEventConfigs ==
    {SchedEvent(DateSoon, thread, k, <<>>) : thread \in {None, THREAD}, k \in 0..1}

InitLate ==
    /\ event_ids = <<E1, E2>>
    /\ events \in [SchedEvents -> LateEventConfigs]
    /\ now = 0
    /\ last = Op("init", 0, TRUE)
    /\ won = NoWins
    /\ participant_ids = <<>>
    /\ team_size = 0
    /\ rt = [state |-> "idle", teams |-> <<>>, arg |-> <<>>]
    /\ running = FALSE
    /\ task = NoTask
    /\ starts = 0
    /\ thread_log = [e \in SchedEvents |-> NoPosts]
    /\ loops = 0
    /\ InitIndex
    /\ InitViews

\* the scheduler left running while users join and threads are created
NextLate ==
    \/ NextRun
    \/ /\ ~Busy
       /\ \E e \in SchedEvents, u \in 1..MaxJoined : AddParticipant(e, u)
    \/ /\ ~Busy
       /\ \E e \in SchedEvents : CreateThread(e)

SpecLate == InitLate /\ [][NextLate]_vars

(* --------------------------- the event registry ----------------------- *)
\* the ids uuid4()[:8] is drawn from, the guilds and creators of the events,
\* the users of the registry's mutators
EventIds == {E1, E2}
Guilds == {1, 2}
RegistryUsers == {1}
\* Discord posts at most MaxMessages event messages
MaxMessages == 2
RAID == "raid"
PVP == "pvp"

\* what a lookup returns when it returns None
NotFound == "None"

\* Python's truth test of an Optional[int]
Truthy(x) == x # None /\ x # 0

\* Event.__init__, every attribute
StoredEvent(event_id, event_type, creator, guild, max, date, created) ==
    [ event_id |-> event_id,
      event_type |-> event_type,
      guild_id |-> guild,
      created_at |-> created,
      message_id |-> None ] @@ NewEvent(creator, max, date)

\* dict.get, dict.pop(key, None), dict[key] = value, del dict[key]
DictGet(dict, k) == IF k \in DOMAIN dict THEN dict[k] ELSE NotFound
DictPop(dict, k) == [x \in DOMAIN dict \ {k} |-> dict[x]]
DictPut(dict, k, v) == [x \in DOMAIN dict \cup {k} |-> IF x = k THEN v ELSE dict[x]]

\* the keys of a dict after dict[k] = v: a new key goes last
KeysPut(keys, k) == IF k \in Range(keys) THEN keys ELSE Append(keys, k)
KeysDel(keys, k) == SelectSeq(keys, LAMBDA x : x # k)

\* EventService.get_event
get_event(evs, event_id) ==
    IF event_id \in DOMAIN evs THEN event_id ELSE NotFound

\* EventService.get_events_by_guild, as the ids of the events returned
get_events_by_guild(evs, keys, guild_id) ==
    SelectSeq(keys, LAMBDA k : evs[k].guild_id = guild_id)

\* EventService.get_events_by_creator
get_events_by_creator(evs, keys, creator_id, guild_id) ==
    SelectSeq(keys, LAMBDA k : evs[k].creator_id = creator_id
                               /\ evs[k].guild_id = guild_id)

\* EventService.get_events_by_status
get_events_by_status(evs, keys, guild_id, status) ==
    SelectSeq(get_events_by_guild(evs, keys, guild_id),
              LAMBDA k : evs[k].status = status)

\* EventService.get_events_by_type
get_events_by_type(evs, keys, guild_id, event_type) ==
    SelectSeq(get_events_by_guild(evs, keys, guild_id),
              LAMBDA k : evs[k].event_type = event_type)

\* the fallback of get_event_by_message_id: the first stored event, in dict
\* order, whose message_id is the one looked for
ScanForMessage(evs, keys, message_id) ==
    LET hits == SelectSeq(keys, LAMBDA k : evs[k].message_id = message_id)
    IN  IF hits = <<>> THEN NotFound ELSE hits[1]

\* get_event_by_message_id without the backfill of the index
get_event_by_message_id_nofill(evs, keys, index, message_id) ==
    LET event_id == DictGet(index, message_id)
        found == ScanForMessage(evs, keys, message_id)
    IN  IF event_id # NotFound
        THEN [ret |-> get_event(evs, event_id), index |-> index]
        ELSE [ret |-> found, index |-> index]

\* EventService.get_event_by_message_id: what it returns and the index it leaves
get_event_by_message_id(evs, keys, index, message_id) ==
    LET event_id == DictGet(index, message_id)
        found == ScanForMessage(evs, keys, message_id)
    IN  IF event_id # NotFound
        THEN [ret |-> get_event(evs, event_id), index |-> index]
        ELSE IF found # NotFound
        THEN [ret |-> found, index |-> DictPut(index, message_id, found)]
        ELSE [ret |-> NotFound, index |-> index]

\* EventService.link_message_to_event
link_message_to_event(index, message_id, event_id) ==
    DictPut(index, message_id, event_id)

\* delete_event that drops the index entry and keeps the event
delete_event_unlinks_only(evs, keys, index, event_id) ==
    IF event_id \in DOMAIN evs
    THEN [ret |-> TRUE, events |-> evs, keys |-> keys,
          index |-> DictPop(index, evs[event_id].message_id)]
    ELSE [ret |-> FALSE, events |-> evs, keys |-> keys, index |-> index]

\* EventService.delete_event
delete_event(evs, keys, index, event_id) ==
    IF event_id \in DOMAIN evs
    THEN [ret |-> TRUE,
          events |-> DictPop(evs, event_id),
          keys |-> KeysDel(keys, event_id),
          index |-> IF Truthy(evs[event_id].message_id)
                    THEN DictPop(index, evs[event_id].message_id)
                    ELSE index]
    ELSE [ret |-> FALSE, events |-> evs, keys |-> keys, index |-> index]

\* EventService.create_event: the event stored under the id drawn
create_event(evs, keys, event_id, event_type, creator, guild, max, date, created) ==
    [events |-> DictPut(evs, event_id,
                        StoredEvent(event_id, event_type, creator, guild, max,
                                    date, created)),
     keys |-> KeysPut(keys, event_id)]

\* EventService.__init__: no event stored
InitRegistry ==
    /\ events = <<>>
    /\ event_ids = <<>>
    /\ InitIndex
    /\ InitViews
    /\ now = 0
    /\ last = Op("init", 0, TRUE)
    /\ won = NoWins
    /\ participant_ids = <<>>
    /\ team_size = 0
    /\ rt = [state |-> "idle", teams |-> <<>>, arg |-> <<>>]
    /\ running = FALSE
    /\ task = NoTask
    /\ starts = 0
    /\ thread_log = <<>>
    /\ loops = 0

registryFrame == <<now, won, teamVars, running, task, starts, thread_log, loops,
                   views>>

\* EventService.create_event, the id being whatever uuid4()[:8] gives
CreateEvent(event_id, event_type, creator, guild) ==
    LET r == create_event(events, event_ids, event_id, event_type, creator,
                          guild, MaxCap, None, now)
    IN
    /\ events' = r.events
    /\ event_ids' = r.keys
    /\ posting' = posting \cup {event_id}
    /\ last' = [Op("create_event", 0, TRUE) EXCEPT !.event_id = event_id]
    /\ UNCHANGED <<registryFrame, message_to_event, next_message_id>>

\* EventService.delete_event
DeleteEvent(event_id) ==
    LET r == delete_event(events, event_ids, message_to_event, event_id) IN
    /\ events' = r.events
    /\ event_ids' = r.keys
    /\ message_to_event' = r.index
    /\ last' = [Op("delete_event",
                    IF r.ret /\ Truthy(events[event_id].message_id)
                    THEN events[event_id].message_id ELSE 0,
                    r.ret) EXCEPT !.event_id = event_id]
    /\ UNCHANGED <<registryFrame, next_message_id, posting>>

\* EventCommands: the command that created the event resumes from the send of
\* the event's message: event.message_id = message.id on the Event it holds,
\* stored or deleted meanwhile, and the message is linked to the event
\* (create command) or not (quick command)
PostEventMessage(event_id, linked) ==
    /\ event_id \in posting
    /\ next_message_id <= MaxMessages
    /\ posting' = posting \ {event_id}
    /\ events' = IF event_id \in DOMAIN events
                 THEN [events EXCEPT ![event_id].message_id = next_message_id]
                 ELSE events
    /\ message_to_event' =
          IF linked
          THEN link_message_to_event(message_to_event, next_message_id, event_id)
          ELSE message_to_event
    /\ next_message_id' = next_message_id + 1
    /\ last' = [Op("post_event_message", next_message_id, linked) EXCEPT
                   !.event_id = event_id]
    /\ UNCHANGED <<registryFrame, event_ids>>

\* EventService.get_event_by_message_id
GetEventByMessageId(message_id) ==
    LET r == get_event_by_message_id(events, event_ids, message_to_event,
                                     message_id)
    IN
    /\ message_to_event' = r.index
    /\ last' = [Op("get_event_by_message_id", message_id, r.ret) EXCEPT
                   !.note = IF r.index # message_to_event THEN "backfilled" ELSE ""]
    /\ UNCHANGED <<registryFrame, events, event_ids, next_message_id, posting>>

\* EventService.get_event
GetEvent(event_id) ==
    /\ last' = [Op("get_event", 0, get_event(events, event_id)) EXCEPT
                   !.event_id = event_id]
    /\ UNCHANGED <<registryFrame, events, event_ids, indexVars, views>>

\* EventService.get_attendance_report: None for an unknown id
GetAttendanceReport(event_id) ==
    /\ last' = [Op("get_attendance_report", 0, get_event(events, event_id))
                   EXCEPT !.event_id = event_id]
    /\ UNCHANGED <<registryFrame, events, event_ids, indexVars, views>>

\* the ids get_event does not find
UnknownIds == EventIds \ DOMAIN events

\* the registry's operations, on stored and on unknown ids; the check-in
\* operations on unknown ids only (SpecCheckIn has them on a stored event)
NextRegistry ==
    \/ \E e \in EventIds, t \in {RAID, PVP}, g \in Guilds :
          CreateEvent(e, t, 1, g)
    \/ \E e \in EventIds : DeleteEvent(e)
    \/ \E e \in EventIds, linked \in BOOLEAN : PostEventMessage(e, linked)
    \/ \E h \in 1..MaxMessages : GetEventByMessageId(h)
    \/ \E e \in EventIds : GetEvent(e)
    \/ \E e \in EventIds : GetAttendanceReport(e)
    \/ \E e \in EventIds, u \in RegistryUsers : AddParticipant(e, u)
    \/ \E e \in EventIds, u \in RegistryUsers : RemoveParticipant(e, u)
    \/ \E e \in UnknownIds, u \in RegistryUsers : CheckInParticipant(e, u)
    \/ \E e \in UnknownIds, u \in RegistryUsers : CheckOutParticipant(e, u)
    \/ \E e \in UnknownIds : EnableCheckIn(e, None, None)
    \/ \E e \in UnknownIds : DisableCheckIn(e)

SpecRegistry == InitRegistry /\ [][NextRegistry]_vars

(* ---------------------------- attendance_rate ------------------------- *)
\* Python floats are IEEE 754 doubles: a positive value is a 53-bit
\* significand times a power of two, and every operation is rounded to the
\* nearest such value, ties to even. A double is modelled as its significand
\* in three limbs, hi (19 bits, the leading bit set), mid (18 bits) and lo
\* (16 bits), and the exponent e of its leading bit; 0.0 is FZero. The counts
\* are small positive integers, so neither overflow nor subnormals occur.
FZero == [hi |-> 0, mid |-> 0, lo |-> 0, e |-> 0]

\* a / b brought to [1, 2): <<numerator, denominator, exponent>>
RECURSIVE Scaled(_, _, _)
Scaled(a, b, e) ==
    IF a >= 2 * b THEN Scaled(a, 2 * b, e + 1)
    ELSE IF a < b THEN Scaled(2 * a, b, e - 1)
    ELSE <<a, b, e>>

\* the double above x
FNext(x) ==
    IF x.lo + 1 < 2^16 THEN [x EXCEPT !.lo = @ + 1]
    ELSE IF x.mid + 1 < 2^18 THEN [x EXCEPT !.lo = 0, !.mid = @ + 1]
    ELSE IF x.hi + 1 < 2^19 THEN [x EXCEPT !.lo = 0, !.mid = 0, !.hi = @ + 1]
    ELSE [hi |-> 2^18, mid |-> 0, lo |-> 0, e |-> x.e + 1]

\* round to nearest, ties to even: the 53 bits kept, the first bit dropped,
\* and whether anything dropped after it is not zero
FRound(kept, round, sticky) ==
    IF round = 1 /\ (sticky \/ kept.lo % 2 = 1) THEN FNext(kept) ELSE kept

\* float division of two non-negative integers below 2^10, b > 0: long
\* division, 18, 18 and 17 bits at a time, the last of them the rounding bit
fdiv(a, b) ==
    IF a = 0 THEN FZero
    ELSE LET s == Scaled(a, b, 0)
             den == s[2]
             r0 == s[1] - den
             d1 == (r0 * 2^18) \div den
             r1 == (r0 * 2^18) % den
             d2 == (r1 * 2^18) \div den
             r2 == (r1 * 2^18) % den
             d3 == (r2 * 2^17) \div den
             r3 == (r2 * 2^17) % den
         IN  FRound([hi |-> 2^18 + d1, mid |-> d2, lo |-> d3 \div 2, e |-> s[3]],
                    d3 % 2, r3 # 0)

\* float multiplication of a double by an integer k, 1 <= k < 2^7: the exact
\* product limb by limb, then the bits beyond the 53rd rounded away
fmul(x, k) ==
    IF x = FZero THEN FZero
    ELSE LET t0 == x.lo * k
             t1 == x.mid * k + t0 \div 2^16
             t2 == x.hi * k + t1 \div 2^18
             l0 == t0 % 2^16
             l1 == t1 % 2^18
             extra == CHOOSE n \in 0..7 : 2^(18 + n) <= t2 /\ t2 < 2^(19 + n)
             kept == [hi |-> t2 \div 2^extra,
                      mid |-> (t2 % 2^extra) * 2^(18 - extra) + l1 \div 2^extra,
                      lo |-> (l1 % 2^extra) * 2^(16 - extra) + l0 \div 2^extra,
                      e |-> x.e + extra]
         IN  IF extra = 0 THEN kept
             ELSE FRound(kept, (l0 \div 2^(extra - 1)) % 2,
                         l0 % 2^(extra - 1) # 0)

\* attendance_rate as a fraction of 1: without the multiplication by 100
attendance_rate_fraction(ev) ==
    IF participant_count(ev) = 0 THEN FZero
    ELSE fdiv(checked_in_count(ev), participant_count(ev))

\* Event.attendance_rate
attendance_rate(ev) ==
    IF participant_count(ev) = 0 THEN FZero
    ELSE fmul(fdiv(checked_in_count(ev), participant_count(ev)), 100)

\* x <= y for two doubles that are not negative
FLeq(x, y) ==
    \/ x = FZero
    \/ /\ y # FZero
       /\ \/ x.e < y.e
          \/ /\ x.e = y.e
             /\ \/ x.hi < y.hi
                \/ /\ x.hi = y.hi
                   /\ \/ x.mid < y.mid
                      \/ x.mid = y.mid /\ x.lo <= y.lo

\* the double 100.0
F100 == fmul(fdiv(1, 1), 100)

\* mutant: every participant is reported as a no-show
get_no_show_participants_all(ev) == ev.participants

\* Event.get_no_show_participants
get_no_show_participants(ev) ==
    SelectSeq(ev.participants, LAMBDA u : u \notin Range(ev.checked_in_participants))

\* the dict of EventService.get_attendance_report for a stored event, at time t
attendance_report(ev, t) ==
    [ total_participants |-> participant_count(ev),
      checked_in_count |-> checked_in_count(ev),
      attendance_rate |-> attendance_rate(ev),
      checked_in_participants |-> ev.checked_in_participants,
      no_show_participants |-> get_no_show_participants(ev),
      check_in_enabled |-> ev.check_in_enabled,
      check_in_active |-> is_check_in_active(ev, t) ]

\* the events tried: 0..MaxRateCount participants, and any list of up to
\* MaxRateCount users, whether they are still participants or not, checked in
MaxRateCount == 4

RECURSIVE NoDupLists(_, _)
NoDupLists(S, n) ==
    IF n = 0 THEN {<<>>}
    ELSE LET shorter == NoDupLists(S, n - 1)
         IN  shorter \cup {Append(l, x) : l \in {m \in shorter : Len(m) = n - 1},
                                          x \in S}

InitAttendance ==
    /\ \E p \in 0..MaxRateCount :
       \E checked \in {l \in NoDupLists(1..MaxRateCount, MaxRateCount) : NoDup(l)} :
          events = [e \in {E1} |->
                      [NewEvent(1, MaxRateCount, None) EXCEPT
                          !.participants = [i \in 1..p |-> i],
                          !.status = IF p = MaxRateCount THEN FULL ELSE OPEN,
                          !.check_in_enabled = TRUE,
                          !.checked_in_participants = checked]]
    /\ InitRest

\* the attendance rate of the event is read
AttendanceRateCall ==
    /\ last.op = "init"
    /\ last' = Op("attendance_rate", 0, attendance_rate(events[E1]))
    /\ UNCHANGED <<events, now, won, teamVars, schedVars, indexVars, views>>

NextAttendance == AttendanceRateCall

SpecAttendance == InitAttendance /\ [][NextAttendance]_vars

(* ------------------------- to_dict / from_dict ------------------------ *)
\* datetime.isoformat and datetime.fromisoformat: the text of a time, and
\* the time of a text
isoformat(t) == <<"iso", t>>
fromisoformat(s) == s[2]

\* the None of a dict entry that otherwise holds a text
NoText == <<>>

\* EventType.value / EventStatus.value, and the member with a value
EnumValue(member) == <<"value", member>>
EnumOf(value) == value[2]

\* dict.get(key, default)
DictGetOr(dict, k, default) == IF k \in DOMAIN dict THEN dict[k] ELSE default

\* Event.to_dict
to_dict(ev) ==
    [ event_id |-> ev.event_id,
      event_type |-> EnumValue(ev.event_type),
      creator_id |-> ev.creator_id,
      guild_id |-> ev.guild_id,
      max_participants |-> ev.max_participants,
      created_at |-> isoformat(ev.created_at),
      status |-> EnumValue(ev.status),
      participants |-> ev.participants,
      checked_in_participants |-> ev.checked_in_participants,
      teams |-> ev.teams,
      team_size |-> ev.team_size,
      message_id |-> ev.message_id,
      check_in_enabled |-> ev.check_in_enabled,
      check_in_start_time |-> IF ev.check_in_start_time # None
                              THEN isoformat(ev.check_in_start_time) ELSE NoText,
      check_in_end_time |-> IF ev.check_in_end_time # None
                            THEN isoformat(ev.check_in_end_time) ELSE NoText ]

\* Event.from_dict, called at time t: the constructor, then the attributes
\* the dict has
from_dict(data, t) ==
    [ StoredEvent(data.event_id, EnumOf(data.event_type), data.creator_id,
                  data.guild_id, DictGetOr(data, "max_participants", 100),
                  None, t)
      EXCEPT !.created_at = fromisoformat(data.created_at),
             !.status = EnumOf(data.status),
             !.participants = DictGetOr(data, "participants", <<>>),
             !.checked_in_participants =
                  DictGetOr(data, "checked_in_participants", <<>>),
             !.teams = DictGetOr(data, "teams", <<>>),
             !.team_size = DictGetOr(data, "team_size", None),
             !.message_id = DictGetOr(data, "message_id", None),
             !.check_in_enabled = DictGetOr(data, "check_in_enabled", FALSE),
             !.check_in_start_time =
                  IF DictGetOr(data, "check_in_start_time", NoText) # NoText
                  THEN fromisoformat(data.check_in_start_time) ELSE @,
             !.check_in_end_time =
                  IF DictGetOr(data, "check_in_end_time", NoText) # NoText
                  THEN fromisoformat(data.check_in_end_time) ELSE @ ]

\* the events exported: of either type, scheduled or not, with or without a
\* thread and a message, joined by up to MaxJoined users, check-in never
\* enabled or enabled with one user checked in, teams drawn or not, any
\* status, reminded or not (only a scheduled event is ever reminded)
ExportedEvents ==
    { [ (IF window
         THEN check_in_participant(
                  enable_check_in(
                      Joined(StoredEvent(E1, event_type, 1, 1, MaxJoined, date, 0), k),
                      WinStart, WinEnd),
                  1, WinStart).ev
         ELSE Joined(StoredEvent(E1, event_type, 1, 1, MaxJoined, date, 0), k))
        EXCEPT !.thread_id = thread,
               !.message_id = message,
               !.reminder_sent = reminded,
               !.teams = IF teams /\ k >= 2 THEN <<<<1, 2>>>> ELSE <<>>,
               !.team_size = IF teams /\ k >= 2 THEN 2 ELSE None,
               !.status = IF status = OPEN THEN @ ELSE status ] :
        event_type \in {RAID, PVP}, date \in {None, DateSoon},
        k \in 0..MaxJoined, window \in BOOLEAN, thread \in {None, THREAD},
        message \in {None, 1}, reminded \in BOOLEAN, teams \in BOOLEAN,
        status \in {OPEN, IN_PROGRESS} }

InitSerial ==
    /\ \E ev \in {x \in ExportedEvents : x.reminder_sent => x.event_date # None} :
          events = [e \in {E1} |-> ev]
    /\ InitRest

\* an event is exported and imported again, MaxTime later
ToDictFromDict ==
    /\ last.op = "init"
    /\ last' = Op("from_dict", 0, from_dict(to_dict(events[E1]), MaxTime))
    /\ UNCHANGED <<events, now, won, teamVars, schedVars, indexVars, views>>

NextSerial == ToDictFromDict

SpecSerial == InitSerial /\ [][NextSerial]_vars

(* ------------------------- leaving an event --------------------------- *)
\* the events a user leaves: joined by up to MaxJoined users, scheduled or
\* not, reminded or not, check-in never enabled or enabled with the first
\* participant checked in, and no teams or any teams randomize_teams can
\* draw from the participants
TeamDraws(ids) ==
    {<<>>} \cup
    { randomize_teams(ids, size, shuffled).teams :
        size \in VALID_TEAM_SIZES, shuffled \in Shuffles(ids) }

LeftEvents ==
    UNION { { [ (IF window
                 THEN check_in_participant(
                          enable_check_in(Joined(NewEvent(1, MaxJoined, date), k),
                                          WinStart, WinEnd),
                          1, WinStart).ev
                 ELSE Joined(NewEvent(1, MaxJoined, date), k))
                EXCEPT !.teams = teams,
                       !.team_size = IF teams = <<>> THEN None ELSE Len(teams[1]),
                       !.reminder_sent = reminded /\ date # None ] :
              teams \in TeamDraws([i \in 1..k |-> i]) } :
            k \in 0..MaxJoined, date \in {None, DateSoon},
            window \in BOOLEAN, reminded \in BOOLEAN }

InitLeave ==
    /\ \E ev \in LeftEvents : events = [e \in {E1} |-> ev]
    /\ InitRest

\* one user leaves, or tries to
NextLeave ==
    /\ last.op = "init"
    /\ \E u \in Users : RemoveParticipant(E1, u)

SpecLeave == InitLeave /\ [][NextLeave]_vars

(* ------------------ the registry changing under a scan ---------------- *)
\* one scheduled event with a thread and participants is stored; while the
\* loop task is suspended, commands create an event under an id not in use
\* and delete events other than the one whose reminder is in flight
InitBackoff ==
    /\ \E k \in 1..MaxJoined :
          events = [e \in {E1} |->
                      [Joined(StoredEvent(E1, RAID, 1, 1, MaxJoined, DateSoon, 0), k)
                          EXCEPT !.thread_id = THREAD]]
    /\ event_ids = <<E1>>
    /\ now = 0
    /\ last = Op("init", 0, TRUE)
    /\ won = NoWins
    /\ participant_ids = <<>>
    /\ team_size = 0
    /\ rt = [state |-> "idle", teams |-> <<>>, arg |-> <<>>]
    /\ running = FALSE
    /\ task = NoTask
    /\ starts = 0
    /\ thread_log = [e \in SchedEvents |-> NoPosts]
    /\ loops = 0
    /\ InitIndex
    /\ InitViews

NextBackoff ==
    \/ NextSched
    \/ /\ ~Busy
       /\ \E event_id \in EventIds \ DOMAIN events : CreateEvent(event_id, RAID, 1, 1)
    \/ /\ ~Busy
       /\ \E event_id \in DOMAIN events \ {task.event} : DeleteEvent(event_id)

SpecBackoff == InitBackoff /\ [][NextBackoff]_vars

(* ------------------------ the team-size prompt ------------------------ *)
\* utils/team_selection_view.py. discord.py dispatches a component interaction
\* to a view as long as the view is not finished (stopped or timed out): it
\* awaits interaction_check, and only if that returns True refreshes the
\* timeout and runs the button's callback; an exception of the callback goes
\* to View.on_error. The disabled flag of an item is what the message shows
\* once it has been edited, and is not looked at on dispatch.
NumViewUsers == 3
ViewUsers == 1..NumViewUsers
ViewStep == 300
ViewHorizon == 300
\* how many callbacks of one view may be suspended at once
MaxHandlers == 2

\* the "Pas d'équipes" button, next to the five size buttons
NoTeams == 0
TEAM_BUTTONS == {1, 2, 3, 4, 6}

interaction_check_anyone(ev, user) == TRUE

\* interaction_check: only the creator of the event may answer
interaction_check(ev, user) == user = ev.creator_id

\* the view can still be answered
Answerable(v) == v.state = "live" /\ now < v.expires_at

\* View.stop(): finishes the view unless it is finished already
stop(v) == IF v.state = "live" THEN [v EXCEPT !.state = "stopped"] ELSE v

\* the first part of a callback, up to its first await: no_teams (lines 77-91)
\* or _handle_team_size_selection (lines 96-141); branch names the await the
\* callback is suspended in
Selected(v, button, branch) ==
    [v EXCEPT !.expires_at = now + VIEW_TIMEOUT,
              !.responded = TRUE,
              !.selected_size = IF button = NoTeams THEN None ELSE button,
              !.disabled = TRUE,
              !.handlers = Append(@, branch)]

\* mutant: teams that exist are kept
AssignTeams_if_none(ev, teams, size) ==
    IF ev.teams # <<>> THEN ev ELSE [ev EXCEPT !.teams = teams, !.team_size = size]

\* "self.event.teams = teams; self.event.team_size = team_size"
AssignTeams(ev, teams, size) == [ev EXCEPT !.teams = teams, !.team_size = size]

\* a user presses a button of the i-th prompt; manual records whether the
\* event then had teams that no answer to this prompt had made
Interact(i, user, button, shuffled) ==
    LET v == views[i]
        ev == events[v.event]
        r == randomize_teams(ev.participants, button, shuffled)
        branch == IF button = NoTeams THEN "declined"
                  ELSE IF ev.participants = <<>> THEN "empty"
                  ELSE IF r.state = "raised" \/ r.teams = <<>> THEN "failed"
                  ELSE "created"
    IN
    /\ Answerable(v)
    /\ Len(v.handlers) < MaxHandlers
    /\ IF ~interaction_check(ev, user)
       THEN /\ last' = [Op("interaction", user, FALSE) EXCEPT
                           !.note = "rejected", !.event_id = v.event]
            /\ UNCHANGED <<events, views>>
       ELSE /\ views' = [views EXCEPT ![i] = Selected(v, button, branch)]
            /\ events' = IF branch = "created"
                         THEN [events EXCEPT ![v.event] = AssignTeams(@, r.teams, button)]
                         ELSE events
            /\ last' = [manual |-> ev.teams # <<>> /\ ~v.responded] @@
                        [Op("interaction", user, TRUE) EXCEPT
                            !.note = branch, !.event_id = v.event]
    /\ UNCHANGED <<now, won, teamVars, schedVars, indexVars>>

\* the k-th suspended callback of the i-th prompt resumes from
\* interaction.response.edit_message, which succeeded (ok) or raised; posted
\* tells whether the roster then reached the thread (lines 143-158, failures
\* caught there). An edit that raises in the try block (line 141) is caught at
\* line 160 and the callback awaits the edit of the error embed; any other
\* edit that raises ends the callback before self.stop()
Resume(i, k, ok, posted) ==
    LET v == views[i]
        h == v.handlers[k]
        rest == [j \in 1..(Len(v.handlers) - 1) |->
                    IF j < k THEN v.handlers[j] ELSE v.handlers[j + 1]]
        roster == ok /\ h = "created" /\ posted /\ events[v.event].thread_id # None
    IN
    /\ k \in 1..Len(v.handlers)
    /\ views' = [views EXCEPT ![i] =
          IF ok THEN stop([v EXCEPT !.handlers = rest])
          ELSE IF h = "created" THEN [v EXCEPT !.handlers[k] = "retry"]
          ELSE [v EXCEPT !.handlers = rest]]
    /\ thread_log' = IF roster
                     THEN [thread_log EXCEPT ![v.event].rosters = @ + 1]
                     ELSE thread_log
    /\ last' = [Op("callback", events[v.event].creator_id, ok) EXCEPT
                   !.note = h, !.event_id = v.event]
    /\ UNCHANGED <<events, now, won, teamVars, event_ids, running, task, starts,
                   loops, indexVars>>

\* on_timeout: the view's timer ran out; discord.py finishes the view, then
\* on_timeout disables every item and edits the message (failures caught)
Timeout(i) ==
    LET v == views[i] IN
    /\ v.state = "live"
    /\ now >= v.expires_at
    /\ views' = [views EXCEPT ![i].state = "timed_out", ![i].disabled = TRUE]
    /\ last' = [Op("on_timeout", 0, TRUE) EXCEPT !.event_id = v.event]
    /\ UNCHANGED <<events, now, won, teamVars, schedVars, indexVars>>

\* time passes; a timer that is due fires before time passes further
Wait ==
    /\ now + ViewStep <= ViewHorizon
    /\ \A i \in 1..Len(views) : views[i].state = "live" => now < views[i].expires_at
    /\ now' = now + ViewStep
    /\ UNCHANGED <<events, last, won, teamVars, schedVars, indexVars, views>>

\* after the scan that posted the prompt of E1, and a stop of the scheduler
InitView ==
    /\ \E k \in 2..NumViewUsers :
          events = [e \in {E1} |->
                      [Joined(NewEvent(1, NumViewUsers, DateSoon), k)
                          EXCEPT !.thread_id = THREAD, !.reminder_sent = TRUE]]
    /\ views = <<[NewView(E1, 0) EXCEPT !.message = TRUE]>>
    /\ event_ids = <<E1>>
    /\ now = 0
    /\ last = Op("init", 0, TRUE)
    /\ won = NoWins
    /\ participant_ids = <<>>
    /\ team_size = 0
    /\ rt = [state |-> "idle", teams |-> <<>>, arg |-> <<>>]
    /\ running = FALSE
    /\ task = NoTask
    /\ starts = 1
    /\ thread_log = [e \in {E1} |-> [NoPosts EXCEPT !.reminders = 1, !.prompts = 1]]
    /\ loops = 0
    /\ InitIndex

NextView ==
    \/ \E i \in 1..Len(views), user \in ViewUsers, button \in TEAM_BUTTONS \cup {NoTeams} :
          \E shuffled \in Shuffles(events[views[i].event].participants) :
             Interact(i, user, button, shuffled)
    \/ \E i \in 1..Len(views), k \in 1..MaxHandlers, ok \in BOOLEAN, posted \in BOOLEAN :
          Resume(i, k, ok, posted)
    \/ \E i \in 1..Len(views) : Timeout(i)
    \/ Wait
    \/ \E u \in ViewUsers : RemoveParticipant(E1, u)

SpecView == InitView /\ [][NextView]_vars

(* ------------------- every way the teams change ----------------------- *)
\* the prompt answered by the creator, its message edits succeeding, next to
\* the join, leave, randomize and clear commands
MaxRosterSize == 2
RosterSizes == {size \in TEAM_BUTTONS : size <= MaxRosterSize}

NextRoster ==
    \/ \E button \in RosterSizes :
          \E shuffled \in Shuffles(events[E1].participants) :
             Interact(1, events[E1].creator_id, button, shuffled)
    \/ \E k \in 1..MaxHandlers : Resume(1, k, TRUE, FALSE)
    \/ \E u \in ViewUsers : AddParticipant(E1, u)
    \/ \E u \in ViewUsers : RemoveParticipant(E1, u)
    \/ \E size \in RosterSizes : RandomizeTeamsCommand(E1, size)
    \/ ClearTeamsCommand(E1)

SpecRoster == InitView /\ [][NextRoster]_vars

(* -------------------------- cleanup_old_events ------------------------ *)
\* The clock of this specification counts seconds from the first day of a
\* month, in a calendar whose months have MonthDays days.
DAY == 86400
MonthDays == 30
CleanupStep == 43200
\* the clock runs to the end of the day MaxCleanupDay of the next month
MaxCleanupDay == 3
\* cleanup_old_events is called with days in 0..MaxDays
MaxDays == 3

\* datetime.day
DayOfMonth(t) == ((t \div DAY) % MonthDays) + 1

\* the events deleted one after the other, "for event_id in old_events"
RECURSIVE DeleteAll(_, _, _, _)
DeleteAll(evs, keys, index, old) ==
    IF old = <<>> THEN [events |-> evs, keys |-> keys, index |-> index, count |-> 0]
    ELSE LET r == delete_event(evs, keys, index, Head(old))
             rest == DeleteAll(r.events, r.keys, r.index, Tail(old))
         IN  [rest EXCEPT !.count = @ + (IF r.ret THEN 1 ELSE 0)]

\* variant: the cutoff is t minus a timedelta of days, whatever the day of the month
cleanup_old_events_timedelta(evs, keys, index, days, t) ==
    LET cutoff_date == t - days * DAY
        old_events == SelectSeq(keys, LAMBDA k : evs[k].created_at < cutoff_date)
    IN  DeleteAll(evs, keys, index, old_events)

\* EventService.cleanup_old_events at time t: replace(day=day - days) raises
\* ValueError for a day below 1, and the except clause returns 0
cleanup_old_events(evs, keys, index, days, t) ==
    IF DayOfMonth(t) - days < 1
    THEN [events |-> evs, keys |-> keys, index |-> index, count |-> 0]
    ELSE LET cutoff_date == t - days * DAY
             old_events == SelectSeq(keys, LAMBDA k : evs[k].created_at < cutoff_date)
         IN  DeleteAll(evs, keys, index, old_events)

CleanupOldEvents(days) ==
    LET r == cleanup_old_events(events, event_ids, message_to_event, days, now) IN
    /\ events' = r.events
    /\ event_ids' = r.keys
    /\ message_to_event' = r.index
    /\ last' = [count |-> r.count] @@ Op("cleanup_old_events", days, TRUE)
    /\ UNCHANGED <<registryFrame, next_message_id, posting>>

\* time passes
HalfDay ==
    /\ now + CleanupStep <= (MonthDays + MaxCleanupDay) * DAY
    /\ now' = now + CleanupStep
    /\ UNCHANGED <<events, last, won, teamVars, schedVars, indexVars, views>>

\* the process starts on the day before the last day of a month
InitCleanup ==
    /\ events = <<>>
    /\ event_ids = <<>>
    /\ InitIndex
    /\ InitViews
    /\ now = (MonthDays - 2) * DAY
    /\ last = Op("init", 0, TRUE)
    /\ won = NoWins
    /\ participant_ids = <<>>
    /\ team_size = 0
    /\ rt = [state |-> "idle", teams |-> <<>>, arg |-> <<>>]
    /\ running = FALSE
    /\ task = NoTask
    /\ starts = 0
    /\ thread_log = <<>>
    /\ loops = 0

NextCleanup ==
    \/ \E e \in EventIds \ DOMAIN events : CreateEvent(e, RAID, 1, 1)
    \/ \E days \in 0..MaxDays : CleanupOldEvents(days)
    \/ HalfDay

SpecCleanup == InitCleanup /\ [][NextCleanup]_vars

(* ------------------------- the message index -------------------------- *)
\* events created under new ids, their messages posted, looked up and deleted
NextIndex ==
    \/ \E e \in EventIds \ DOMAIN events, g \in Guilds : CreateEvent(e, RAID, 1, g)
    \/ \E e \in EventIds, linked \in BOOLEAN : PostEventMessage(e, linked)
    \/ \E h \in 1..MaxMessages : GetEventByMessageId(h)
    \/ \E e \in EventIds : DeleteEvent(e)

SpecIndex == InitRegistry /\ [][NextIndex]_vars

(* ============================== claims =============================== *)
Ev == events[E1]

\* C1: whatever addParticipant/removeParticipant calls are made on an event with
\* a positive maxParticipants, the participant sequence never holds a user id
\* twice and is never longer than maxParticipants.
C1_ParticipantsBounded ==
    /\ NoDup(Ev.participants)
    /\ Len(Ev.participants) <= Ev.max_participants

\* C1 witness: a join was refused on an event that an earlier join had filled
C1_Witness ==
    /\ last.op = "add_participant" /\ ~last.ret
    /\ last.user \notin Range(Ev.participants)
    /\ Len(Ev.participants) = Ev.max_participants
    /\ Ev.max_participants > 1

\* the reminder notifications posted to the thread of event e
Reminders(e) == thread_log[e].reminders

\* the loop task is inside _send_event_reminder for event e
Sending(e) == AwaitingIO /\ Current = e

\* C2: over every interleaving of start, stop, scan steps and sends in flight,
\* no event's reminder notification is posted more than once, also when stop
\* cancels the loop during a send and the scheduler is started again while the
\* event is still in the window.
C2_PostedAtMostOnce ==
    \A e \in SchedEvents : Reminders(e) <= 1

\* C3: while the scheduler stays running, the reminder notification of an
\* event is posted at most once: once the scan that posted it has finished
\* with the event, reminder_sent is true, and no step posts to the thread of
\* an event whose reminder_sent is true, however many later scans see it in
\* the window.
C3_OnceWhileRunning ==
    [][ \A e \in SchedEvents :
          /\ Reminders(e)' <= 1
          /\ (Reminders(e)' = 1 /\ ~Sending(e)') => events'[e].reminder_sent
          /\ events[e].reminder_sent
               => /\ thread_log'[e] = thread_log[e]
                  /\ events'[e].reminder_sent
                  /\ ~Sending(e)' ]_vars

\* C3 witness: the reminder of E1 has been posted once, its latch is set, and
\* a later scan is about to look at it again while it is still in the window
C3_Witness ==
    /\ Reminders(E1) = 1
    /\ events[E1].reminder_sent
    /\ running
    /\ task.pc = "next"
    /\ task.it = 1
    /\ InReminderWindow(events[E1], task.scan_now)

\* an event scheduled more than three minutes after time 0
StartsLater(e) == events[e].event_date - 0 > REMINDER_WINDOW_MAX

\* the step posts the reminder notification of event e
PostsReminder(e) == Reminders(e)' # Reminders(e)

\* the step sets the reminder_sent latch of event e
SetsLatch(e) == events'[e].reminder_sent /\ ~events[e].reminder_sent

\* C4 as stated: an event scheduled more than three minutes ahead is reminded
\* only by a scan that found it in the window, and the scan that finds it in
\* the window, the scheduler running, leaves exactly one notification posted.
C4_Original ==
    [][ \A e \in SchedEvents :
          StartsLater(e) =>
            /\ PostsReminder(e) => InReminderWindow(events[e], task.scan_now)
            /\ SetsLatch(e) => Reminders(e)' = 1 ]_vars

\* C4, amended: for an event scheduled more than three minutes ahead, a
\* reminder is posted only by a scan whose clock reading put the event in the
\* window, and never while more than three minutes remain; at most one is ever
\* posted; the scan that finds it in the window sets reminder_sent, and has
\* then posted exactly one notification if the event has a thread that could
\* be resolved, at least one participant, and the post succeeded, and none
\* otherwise.
C4_OnceInWindowIfPostable ==
    [][ \A e \in SchedEvents :
          StartsLater(e) =>
            /\ PostsReminder(e) =>
                 /\ Reminders(e) = 0 /\ Reminders(e)' = 1
                 /\ InReminderWindow(events[e], task.scan_now)
                 /\ events[e].event_date - now <= REMINDER_WINDOW_MAX
                 /\ events[e].thread_id # None
                 /\ events[e].participants # <<>>
            /\ SetsLatch(e) =>
                 /\ running /\ Current = e
                 /\ InReminderWindow(events[e], task.scan_now)
                 /\ Reminders(e)' = Reminders(e)
                 /\ Reminders(e) = 1
                      <=> \/ task.pc = "await_send" /\ task.io = "ok"
                          \/ task.pc = "await_prompt"
                 /\ (events[e].thread_id = None \/ events[e].participants = <<>>)
                      => Reminders(e) = 0 ]_vars

\* C4 witness: time has advanced, an event scheduled more than three minutes
\* ahead has come into the window, and its one reminder has been posted and
\* latched
C4_Witness ==
    /\ StartsLater(E1)
    /\ now >= Step
    /\ running
    /\ Reminders(E1) = 1
    /\ events[E1].reminder_sent

\* C5: addParticipant(u) returns false and changes nothing of the event
\* (participants, status, teams, check-in state) whenever u is already a
\* participant or the event is at capacity.
C5_RefusedAddChangesNothing ==
    [][ \A u \in Users :
          ( /\ last'.op = "add_participant" /\ last'.user = u
            /\ \/ u \in Range(Ev.participants)
               \/ Len(Ev.participants) = Ev.max_participants )
          => (~last'.ret /\ events' = events) ]_vars

\* C5 witness: a refused join on a full event that has teams and whose status
\* had been overridden
C5_Witness ==
    /\ last.op = "add_participant" /\ ~last.ret
    /\ Len(Ev.participants) = Ev.max_participants
    /\ Ev.teams # <<>>
    /\ Ev.status = IN_PROGRESS

\* C6: on a full event with status Full, removeParticipant(u) of a participant
\* sets the status to Open, and the addParticipant(u) that follows immediately
\* succeeds, refills the event and sets the status back to Full.
C6_FullOpenFull ==
    [][ /\ ( /\ last'.op = "remove_participant" /\ last'.ret
             /\ Ev.status = FULL /\ Len(Ev.participants) = Ev.max_participants )
           => ( /\ last'.note = "left full event"
                /\ Ev'.status = OPEN
                /\ Len(Ev'.participants) = Ev.max_participants - 1 )
        /\ ( /\ last.op = "remove_participant" /\ last.note = "left full event"
             /\ last'.op = "add_participant" /\ last'.user = last.user )
           => ( /\ last'.ret
                /\ Len(Ev'.participants) = Ev.max_participants
                /\ Ev'.status = FULL )
        /\ ( /\ last'.op = "add_participant" /\ Ev.status = OPEN )
           => ( Ev'.status = FULL
                  <=> (last'.ret /\ Len(Ev'.participants) = Ev.max_participants) )
      ]_vars

\* C6 witness: the user who had left a full event has joined again
C6_Witness ==
    /\ last.op = "add_participant" /\ last.note = "rejoined" /\ last.ret
    /\ Ev.status = FULL

\* C7: checkInParticipant(u) returns true exactly when u is a participant,
\* check-in is enabled, now lies in [checkInStart, checkInEnd] (an absent bound
\* is no bound, both bounds inclusive) and u is not checked in yet, that is when
\* isCheckInActive() holds for a participant not checked in; otherwise it
\* returns false and leaves the checked-in sequence as it was.
C7_CheckInExactly ==
    [][ \A u \in Users :
          (last'.op = "check_in_participant" /\ last'.user = u) =>
            LET ok == /\ u \in Range(Ev.participants)
                      /\ Ev.check_in_enabled
                      /\ (Ev.check_in_start_time = None \/ Ev.check_in_start_time <= now)
                      /\ (Ev.check_in_end_time = None \/ now <= Ev.check_in_end_time)
                      /\ u \notin Range(Ev.checked_in_participants)
            IN  /\ last'.ret <=> ok
                /\ last'.ret <=> ( /\ is_check_in_active(Ev, now)
                                   /\ is_participant(Ev, u)
                                   /\ ~is_checked_in(Ev, u) )
                /\ last'.ret =>
                     Ev'.checked_in_participants = Append(Ev.checked_in_participants, u)
                /\ ~last'.ret => events' = events ]_vars

\* C7 witness: a check-in accepted at the very end of the window
C7_Witness ==
    /\ last.op = "check_in_participant" /\ last.ret
    /\ Ev.check_in_start_time = WinStart
    /\ now = Ev.check_in_end_time

\* C8 as stated: while the check-in window stays active, at most one
\* checkInParticipant(u) returns true for a user u, whatever other operations
\* (checkOutParticipant, removeParticipant, addParticipant) come in between.
C8_Original ==
    [][ \A u \in Users :
          (last'.op = "check_in_participant" /\ last'.user = u /\ last'.ret)
          => ~won[u] ]_vars

\* C8 amended: while the check-in window stays active, at most one
\* checkInParticipant(u) returns true for a user u unless a
\* checkOutParticipant(u) returned true in between: a check-in that returns
\* true finds u not checked in and leaves u checked in, and u stays checked in
\* until a checkOutParticipant(u) returns true (removeParticipant and
\* addParticipant do not end it).
C8_OncePerCheckOut ==
    [][ LET before == Range(Ev.checked_in_participants)
            after == Range(Ev'.checked_in_participants)
        IN  /\ (last'.op = "check_in_participant" /\ last'.ret)
               => (last'.user \notin before /\ last'.user \in after)
            /\ (before \ after # {})
               => ( /\ last'.op = "check_out_participant" /\ last'.ret
                    /\ before \ after = {last'.user} )
            /\ Cardinality(after) = Len(Ev'.checked_in_participants) ]_vars

\* C8 witness: the second check-in of a user who left and rejoined while
\* checked in is refused
C8_Witness ==
    /\ last.op = "check_in_participant" /\ ~last.ret
    /\ won[last.user]
    /\ is_check_in_active(Ev, now)
    /\ last.user \in Range(Ev.participants)
    /\ Len(Ev.checked_in_participants) > Len(Ev.participants)

TeamIds(teams) == UNION {Range(teams[i]) : i \in 1..Len(teams)}

\* the partition the randomizer promises for the call rt.arg, team_size
PartitionOf(ids, size, teams) ==
    /\ Len(teams) = Len(ids) \div size
    /\ \A i \in 1..Len(teams) : Len(teams[i]) = size /\ NoDup(teams[i])
    /\ \A i, j \in 1..Len(teams) : i # j => Range(teams[i]) \cap Range(teams[j]) = {}
    /\ TeamIds(teams) \subseteq Range(ids)
    /\ Cardinality(Range(ids) \ TeamIds(teams)) = Len(ids) % size

C9_Pre ==
    /\ rt.state # "called"
    /\ NoDup(rt.arg)
    /\ team_size \in VALID_TEAM_SIZES
    /\ (team_size > 1 => Len(rt.arg) >= team_size)

\* C9 as stated: for a duplicate-free list and a supported teamSize s (at least
\* s participants when s > 1) randomizeTeams returns floor(n/s) teams of s ids
\* each, disjoint, drawn from the input, drops the n mod s others and leaves
\* the input list as it was.
C9_Original ==
    C9_Pre => /\ rt.state = "returned"
              /\ PartitionOf(rt.arg, team_size, rt.teams)
              /\ participant_ids = rt.arg

\* C9 amended: the same for a non-empty duplicate-free list (on the empty list
\* randomizeTeams raises for every teamSize, 1 included).
C9_Partition ==
    (C9_Pre /\ rt.arg # <<>>) =>
        /\ rt.state = "returned"
        /\ PartitionOf(rt.arg, team_size, rt.teams)
        /\ participant_ids = rt.arg

\* C9 witness: five ids in teams of two
C9_Witness ==
    /\ rt.state = "returned"
    /\ rt.arg = <<1, 2, 3, 4, 5>> /\ team_size = 2
    /\ Len(rt.teams) = 2
    /\ rt.teams[1][1] = 5

\* C10: randomizeTeams raises, returning no teams, exactly when the list is
\* empty, or teamSize is not one of 1, 2, 3, 4, 6, or teamSize > 1 and there
\* are fewer participants than teamSize; otherwise it returns.
C10_RaisesExactly ==
    rt.state # "called" =>
        /\ rt.state \in {"raised", "returned"}
        /\ rt.state = "raised" <=>
             \/ Len(rt.arg) = 0
             \/ team_size \notin {1, 2, 3, 4, 6}
             \/ (team_size > 1 /\ Len(rt.arg) < team_size)
        /\ rt.state = "raised" => rt.teams = <<>>

\* C10 witness: a supported size above one with too few participants
C10_Witness ==
    /\ rt.state = "raised"
    /\ team_size \in VALID_TEAM_SIZES
    /\ Len(rt.arg) > 0 /\ Len(rt.arg) < team_size

\* the ids of the events the guild-scoped queries return, whatever their arguments
Queried(evs, keys) ==
    UNION {Range(get_events_by_guild(evs, keys, g)) : g \in Guilds}
    \cup UNION {Range(get_events_by_creator(evs, keys, c, g)) :
                   c \in {1}, g \in Guilds}
    \cup UNION {Range(get_events_by_status(evs, keys, g, s)) :
                   g \in Guilds, s \in {OPEN, FULL, IN_PROGRESS, COMPLETED, CANCELLED}}
    \cup UNION {Range(get_events_by_type(evs, keys, g, t)) :
                   g \in Guilds, t \in {RAID, PVP}}

\* C11: a delete_event(e) that returns True leaves e found by no guild-scoped
\* query and by get_event, the deleted event's message id neither in the index
\* nor found by get_event_by_message_id, and the other events as they were;
\* delete_event returns True exactly for a stored id, and for an unknown id it
\* changes nothing.
C11_DeleteRemoves ==
    [][ last'.op = "delete_event" =>
          LET e == last'.event_id IN
          /\ last'.ret <=> e \in DOMAIN events
          /\ last'.ret =>
               /\ get_event(events', e) = NotFound
               /\ e \notin Queried(events', event_ids')
               /\ e \notin Range(event_ids')
               /\ Truthy(events[e].message_id) =>
                    /\ events[e].message_id \notin DOMAIN message_to_event'
                    /\ get_event_by_message_id(events', event_ids',
                          message_to_event', events[e].message_id).ret = NotFound
               /\ DOMAIN events' = DOMAIN events \ {e}
               /\ \A k \in DOMAIN events' : events'[k] = events[k]
          /\ ~last'.ret =>
               UNCHANGED <<events, event_ids, message_to_event>> ]_vars

\* C11 witness: an event whose message was posted has just been deleted, and
\* another event, found through the index, is still stored
C11_Witness ==
    /\ last.op = "delete_event"
    /\ last.ret
    /\ last.user > 0
    /\ \E h \in DOMAIN message_to_event : message_to_event[h] \in DOMAIN events

\* C12: for every stored event whose message_id is h,
\* get_event_by_message_id(h) returns that event, whether h is in the index or
\* not; the lookup leaves h -> event id in the index, so that the next lookup
\* finds it there; this after any creations, postings, links and deletions.
C12_LookupFindsEvent ==
    \A e \in DOMAIN events :
        LET h == events[e].message_id
            r == get_event_by_message_id(events, event_ids, message_to_event, h)
        IN  Truthy(h) =>
              /\ r.ret = e
              /\ DictGet(r.index, h) = e
              /\ get_event_by_message_id(events, event_ids, r.index, h).ret = e
              /\ h \in DOMAIN message_to_event => r.index = message_to_event

\* C12 witness: a lookup has just found an event by the fallback scan and
\* filled the index, which also holds a message linked explicitly
C12_Witness ==
    /\ last.op = "get_event_by_message_id"
    /\ last.note = "backfilled"
    /\ last.ret \in DOMAIN events
    /\ events[last.ret].message_id = last.user
    /\ Cardinality(DOMAIN message_to_event) >= 2

\* the registry's mutators
Mutators ==
    {"add_participant", "remove_participant", "enable_check_in",
     "disable_check_in", "check_in_participant", "check_out_participant",
     "delete_event"}

\* C13: a registry mutator called with an id that is not stored returns False
\* and leaves the registry, the message index and every stored event as they
\* were; get_event and get_attendance_report return None for such an id.
C13_UnknownIdRefused ==
    [][ last'.event_id \notin DOMAIN events =>
          /\ last'.op \in Mutators =>
               /\ last'.ret = FALSE
               /\ UNCHANGED <<events, event_ids, message_to_event>>
          /\ last'.op \in {"get_event", "get_attendance_report"} =>
               /\ last'.ret = NotFound
               /\ UNCHANGED <<events, event_ids, message_to_event>> ]_vars

\* C13 witness: a check-in was just refused for an id that is not stored,
\* while another event is stored and in the index
C13_Witness ==
    /\ last.op = "check_in_participant"
    /\ last.event_id \in EventIds \ DOMAIN events
    /\ last.ret = FALSE
    /\ \E h \in DOMAIN message_to_event : message_to_event[h] \in DOMAIN events

\* C14: create_event stores the new event under an id no stored event has: no
\* entry is replaced, the registry grows by exactly one event, and the new
\* event is Open, without participants or teams, check-in disabled and
\* reminder_sent false.
C14_CreateAddsFreshEvent ==
    [][ last'.op = "create_event" =>
          LET e == last'.event_id IN
          /\ e \notin DOMAIN events
          /\ Cardinality(DOMAIN events') = Cardinality(DOMAIN events) + 1
          /\ \A k \in DOMAIN events : events'[k] = events[k]
          /\ events'[e].status = OPEN
          /\ events'[e].participants = <<>>
          /\ events'[e].teams = <<>>
          /\ ~events'[e].check_in_enabled
          /\ ~events'[e].reminder_sent ]_vars

\* C15: whatever start and stop calls are made, at most one _reminder_loop
\* task is alive, and it is the one _task refers to; once stop has returned
\* the scheduler is stopped and no loop is alive, and until start is called
\* again no scan step is taken, nothing is posted and no event is changed.
C15_OneLoopStoppedByStop ==
    [][ /\ loops' <= 1
        /\ loops' = (IF task'.pc = "none" THEN 0 ELSE 1)
        /\ running' <=> task'.pc # "none"
        /\ (running /\ running') => starts' = starts
        /\ ~running =>
             /\ thread_log' = thread_log
             /\ events' = events
             /\ task' # task => (running' /\ task'.pc = "created") ]_vars

\* C15 witness: the scheduler was started, stop cancelled the loop while the
\* reminder of E1 was posted but not yet latched, and nothing is running
C15_Witness ==
    /\ ~running
    /\ starts = 1
    /\ loops = 0
    /\ task = NoTask
    /\ Reminders(E1) = 1
    /\ ~events[E1].reminder_sent

\* the double nearest to 100 * checked_in_count / participant_count
ExactRate(ev) == fdiv(100 * checked_in_count(ev), participant_count(ev))

\* the rate last read
Rate == last.ret

\* C16 as stated: the attendance rate is 0 when there are no participants
\* and otherwise the value of 100 * checked_in_count / participant_count.
C16_Original ==
    last.op = "attendance_rate" =>
        IF participant_count(Ev) = 0 THEN Rate = FZero ELSE Rate = ExactRate(Ev)

\* C16, amended: the attendance rate is 0.0 when there are no participants,
\* even with users checked in; otherwise it is the double
\* (checked_in_count / participant_count) * 100, the division rounded first
\* and then the product, which is 100 * checked_in_count / participant_count
\* or a double next to it; 3 checked in of 4 participants give exactly 75.0.
C16_RateRoundedTwice ==
    last.op = "attendance_rate" =>
        /\ participant_count(Ev) = 0 => Rate = FZero
        /\ participant_count(Ev) > 0 =>
             /\ Rate = fmul(fdiv(checked_in_count(Ev), participant_count(Ev)), 100)
             /\ \/ Rate = ExactRate(Ev)
                \/ Rate # FZero /\ FNext(Rate) = ExactRate(Ev)
                \/ Rate # FZero /\ Rate = FNext(ExactRate(Ev))
        /\ (checked_in_count(Ev) = 3 /\ participant_count(Ev) = 4)
             => Rate = fdiv(75, 1)
        /\ checked_in_count(Ev) = participant_count(Ev) /\ participant_count(Ev) > 0
             => Rate = fdiv(100, 1)

\* C16 witness: the rate of an event with one of three participants checked
\* in was read, and is the double below 100/3
C16_Witness ==
    /\ last.op = "attendance_rate"
    /\ checked_in_count(Ev) = 1
    /\ participant_count(Ev) = 3
    /\ FNext(Rate) = ExactRate(Ev)

\* the event that from_dict last returned
Imported == last.ret

\* C17: exporting an event with to_dict and importing the result with
\* from_dict yields an event equal to the original in every field,
\* event_date, thread_id, message_id and reminder_sent included.
C17_RoundTripLossless ==
    last.op = "from_dict" => Imported = Ev


\* C18: from a new event with positive max_participants, under add_participant
\* and remove_participant only, the status is Full if and only if the number
\* of participants equals max_participants, and is Open otherwise.
C18_StatusFollowsCapacity ==
    /\ Ev.max_participants > 0
    /\ Ev.status = (IF participant_count(Ev) = Ev.max_participants
                    THEN FULL ELSE OPEN)

\* C18 witness: a participant has left an event that was full, and the event
\* is Open with one place free
C18_Witness ==
    /\ last.op = "remove_participant" /\ last.note = "left full event"
    /\ Ev.status = OPEN
    /\ participant_count(Ev) = Ev.max_participants - 1

\* a status that only update_event_status sets
ExternalStatus == {IN_PROGRESS, COMPLETED, CANCELLED}

\* C19: when the status has been set externally to InProgress, Completed or
\* Cancelled, neither a successful add_participant, even one that reaches
\* capacity, nor a successful remove_participant changes the status.
C19_ExternalStatusKept ==
    [][ ( /\ Ev.status \in ExternalStatus
          /\ last'.op \in {"add_participant", "remove_participant"}
          /\ last'.ret )
        => Ev'.status = Ev.status ]_vars

\* the scan's turn for event e enters _send_event_reminder in this step
Triggers(e) ==
    /\ task.pc = "next"
    /\ task.it <= Len(event_ids)
    /\ Current = e
    /\ \/ task'.pc \in {"await_fetch", "await_send", "await_prompt"}
       \/ events'[e].reminder_sent /\ ~events[e].reminder_sent

\* event ev is scheduled, not reminded yet, and starts 30 s to 180 s after t
Due(ev, t) ==
    /\ ev.event_date # None
    /\ ~ev.reminder_sent
    /\ REMINDER_WINDOW_MIN <= ev.event_date - t
    /\ ev.event_date - t <= REMINDER_WINDOW_MAX

\* event e is notified or latched in this step
Reminded(e) ==
    \/ thread_log'[e] # thread_log[e]
    \/ events'[e].reminder_sent /\ ~events[e].reminder_sent

\* C20: a scan triggers the reminder of an event only if the event has
\* event_date set, reminder_sent false and 30 s <= event_date - now <= 180 s
\* at the time the scan read the clock; nothing is posted and reminder_sent is
\* not set except in a reminder so triggered, so an event that is never due at
\* a scan (no event_date, or always too early or too late) is never notified
\* and its reminder_sent stays false.
C20_OnlyDueEventsReminded ==
    [][ /\ \A e \in SchedEvents :
             /\ Triggers(e) => Due(events[e], task.scan_now)
             /\ Reminded(e) =>
                  \/ Triggers(e)
                  \/ AwaitingIO /\ Current = e /\ Due(events[e], task.scan_now)
             /\ events'[e].event_date = None =>
                  /\ thread_log'[e] = NoPosts
                  /\ ~events'[e].reminder_sent
        /\ AwaitingIO' => Due(events'[event_ids'[task'.it]], task'.scan_now)
      ]_vars

\* C20 witness: the reminder of an event that starts exactly 30 s after the
\* scan's time has been posted
C20_Witness ==
    /\ task.pc = "await_send" /\ task.io = "ok"
    /\ Reminders(Current) = 1
    /\ events[Current].event_date - task.scan_now = REMINDER_WINDOW_MIN

\* the sequence s without its elements equal to x
Without(s, x) == LET keep(y) == y # x IN SelectSeq(s, keep)

\* C29: a successful remove_participant(u) removes u from the participants
\* and from the first team containing u, leaves every other team and every
\* other participant in place, and leaves the checked-in list, the check-in
\* flag and window and reminder_sent unchanged; remove_participant of a
\* non-participant returns false and changes nothing.
C29_LeaveTouchesOnlyTheLeaver ==
    [][ last'.op = "remove_participant" =>
          LET u == last'.user
              holds == {i \in 1..Len(Ev.teams) : u \in Range(Ev.teams[i])}
          IN  IF last'.ret
              THEN /\ u \in Range(Ev.participants)
                   /\ Ev'.participants = Without(Ev.participants, u)
                   /\ Len(Ev'.teams) = Len(Ev.teams)
                   /\ \A i \in 1..Len(Ev.teams) :
                        Ev'.teams[i] =
                           IF i \in holds /\ \A j \in holds : i <= j
                           THEN Without(Ev.teams[i], u)
                           ELSE Ev.teams[i]
                   /\ Ev'.checked_in_participants = Ev.checked_in_participants
                   /\ Ev'.check_in_enabled = Ev.check_in_enabled
                   /\ Ev'.check_in_start_time = Ev.check_in_start_time
                   /\ Ev'.check_in_end_time = Ev.check_in_end_time
                   /\ Ev'.reminder_sent = Ev.reminder_sent
              ELSE /\ u \notin Range(Ev.participants)
                   /\ Ev' = Ev ]_vars

\* C29 witness: a checked-in member of a team has left; they are still
\* checked in, their team is empty and the other team is as it was
C29_Witness ==
    /\ last.op = "remove_participant" /\ last.ret
    /\ last.user \in Range(Ev.checked_in_participants)
    /\ last.user \notin Range(Ev.participants)
    /\ \E i, j \in 1..Len(Ev.teams) : Ev.teams[i] = <<>> /\ Ev.teams[j] # <<>>

\* the dict iterator of the scan in progress finds the registry changed in size
IteratorStale == task.pc = "next" /\ Len(event_ids) # task.size

\* C22: an exception escaping a scan never terminates the scan loop: the
\* scheduler remains running and the next scan starts only after a 60 s
\* back-off, whereas after a scan that completes normally it starts after 15 s;
\* only stop ends the loop.
C22_BackoffKeepsLoop ==
    [][ /\ IteratorStale =>
             /\ task'.pc = "sleep"
             /\ task'.wake_at = now + ERROR_BACKOFF
             /\ running' /\ running
             /\ loops' = 1
        /\ (task.pc = "next" /\ ~IteratorStale /\ task'.pc = "sleep") =>
             task'.wake_at = now + SCAN_INTERVAL
        /\ (task.pc = "sleep" /\ task'.pc = "next") =>
             /\ now >= task.wake_at
             /\ task'.scan_now = now
        /\ (task.pc # "none" /\ task'.pc = "none") => ~running'
        /\ (running /\ ~running') => task'.pc = "none"
      ]_vars

\* C22 witness: a scan has just raised and the loop task sleeps 60 s, the
\* scheduler still running
C22_Witness ==
    /\ running
    /\ task.pc = "sleep"
    /\ task.wake_at = now + ERROR_BACKOFF

\* a send of _send_event_reminder has failed and the task has not resumed yet
SendFailed == AwaitingIO /\ task.io = "err"

\* C21: a failure to resolve the thread, to post the reminder or to post the
\* team-size prompt of one event is caught inside that event's processing: the
\* same scan goes on to the next event, the loop stays running, and the
\* failure changes no event's participants, teams or registry entry.
C21_FailureStaysInsideEvent ==
    [][ /\ (SendFailed /\ task' # task) =>
             /\ task'.pc = "next"
             /\ task'.it = task.it + 1
             /\ task'.scan_now = task.scan_now
             /\ running' = running
             /\ loops' = loops
        /\ (SendFailed \/ SendFailed') =>
             /\ event_ids' = event_ids
             /\ DOMAIN events' = DOMAIN events
             /\ \A e \in DOMAIN events :
                  /\ events'[e].participants = events[e].participants
                  /\ events'[e].teams = events[e].teams
                  /\ events'[e].team_size = events[e].team_size
      ]_vars

\* C21 witness: in the first scan the reminder of the first event could not
\* be posted, and the reminder of the second event has been posted
C21_Witness ==
    /\ now = 0 /\ running
    /\ events[E1].thread_id # None /\ events[E1].participants # <<>>
    /\ events[E1].reminder_sent
    /\ Reminders(E1) = 0
    /\ Sending(E2) /\ Reminders(E2) = 1

\* the prompts posted for event e
Prompts(e) == thread_log[e].prompts

\* the reminder of event e has just been posted and its sender resumes
ReminderJustPosted(e) ==
    /\ task.pc = "await_send" /\ task.io = "ok" /\ Current = e
    /\ task' # task

\* event ev has no teams and at least 2 participants
PromptIsDue(ev) == ev.teams = <<>> /\ Len(ev.participants) >= 2

\* C23 as stated: the team-size prompt is posted for an event exactly when its
\* reminder has just been posted and the event then has no teams and at
\* least 2 participants: once the sender has gone through the prompt, a
\* prompt is in the thread if and only if that was the case.
C23_Original ==
    [][ \A e \in SchedEvents :
          /\ Prompts(e)' > Prompts(e) =>
                /\ task.pc = "await_prompt" /\ Current = e
                /\ Reminders(e) >= 1 /\ PromptIsDue(events[e])
          /\ (ReminderJustPosted(e) /\ PromptIsDue(events[e])) =>
                 task'.pc = "await_prompt"
          /\ (task.pc = "await_prompt" /\ Current = e /\ task'.pc = "next") =>
                 Prompts(e) >= 1
      ]_vars

\* C23, amended: the scheduler sends the team-size prompt of an event exactly
\* when the reminder of the event has just been posted and the event then has
\* no teams and at least 2 participants; the prompt is posted only by such a
\* send, and only if the send succeeds. No prompt is sent or posted for an
\* event with teams, with fewer than 2 participants, or whose reminder was
\* not posted.
C23_PromptSentAfterReminder ==
    [][ \A e \in SchedEvents :
          /\ Prompts(e)' > Prompts(e) =>
                /\ task.pc = "await_prompt" /\ task.io = "pending" /\ Current = e
                /\ task'.io = "ok"
                /\ Reminders(e) >= 1 /\ PromptIsDue(events[e])
          /\ ReminderJustPosted(e) =>
                (task'.pc = "await_prompt" <=> PromptIsDue(events[e]))
          /\ (task'.pc = "await_prompt" /\ task.pc # "await_prompt" /\ Current' = e) =>
                ReminderJustPosted(e)
          /\ (task.pc = "await_prompt" /\ Current = e /\ task'.pc = "next") =>
                (Prompts(e) >= 1 \/ task.io = "err")
      ]_vars

\* C23 witness: the prompt of an event was posted after its reminder
C23_Witness ==
    /\ task.pc = "await_prompt" /\ task.io = "ok"
    /\ Prompts(Current) = 1 /\ Reminders(Current) = 1
    /\ PromptIsDue(events[Current])

\* the prompt of event e is pending: posted, not answered, not expired
Pending(e) ==
    \E i \in 1..Len(views) :
       /\ views[i].event = e
       /\ views[i].state = "live" /\ ~views[i].responded
       /\ now < views[i].expires_at

\* C28: an outstanding team-size prompt never blocks the scan loop: while a
\* prompt is pending the sender of the prompt resumes as soon as Discord has
\* answered, the scan goes on, and the next scan begins when its sleep is
\* over, so the reminders of other events are sent.
C28_PendingPromptBlocksNothing ==
    (\E e \in SchedEvents : Pending(e)) =>
        /\ (task.pc = "await_prompt" /\ task.io # "pending") => ENABLED PromptDone
        /\ task.pc = "next" => ENABLED ScanNext
        /\ (task.pc = "sleep" /\ now >= task.wake_at) => ENABLED BeginScan
        /\ AwaitingIO /\ task.io = "pending" => ENABLED Deliver

\* C28 witness: while the prompt of the first event is pending, a later scan
\* has posted the reminder of the second event
C28_Witness ==
    /\ Pending(E1)
    /\ task.scan_now > 0
    /\ Sending(E2) /\ task.pc = "await_send" /\ task.io = "ok"
    /\ Reminders(E2) = 1

\* the step is an interaction that interaction_check turned down
Rejected ==
    /\ last' # last
    /\ last'.op = "interaction"
    /\ last'.user # events[last'.event_id].creator_id

\* C24: an interaction on the prompt by a user who is not the creator of the
\* event is rejected and consumes nothing: the teams and team_size of the
\* event, the responded and selected state of the prompt and its enabled
\* buttons are unchanged, and the prompt can still be answered by the creator.
C24_StrangerConsumesNothing ==
    [][Rejected =>
          /\ last'.ret = FALSE
          /\ events' = events
          /\ Len(views') = Len(views)
          /\ \A i \in 1..Len(views) :
                /\ views'[i].responded = views[i].responded
                /\ views'[i].selected_size = views[i].selected_size
                /\ views'[i].disabled = views[i].disabled
                /\ views'[i].handlers = views[i].handlers
                /\ views[i].event = last'.event_id => Answerable(views[i])']_vars

C24_Witness ==
    /\ last.op = "interaction"
    /\ last.note = "rejected"
    /\ last.user = 2
    /\ views[1].state = "live"
    /\ ~views[1].responded
    /\ ~views[1].disabled
    /\ events[E1].teams = <<>>

\* the step is the creator pressing the button of size s on the i-th prompt
\* while the event has n participants, enough for the randomizer to succeed
SelectsSize(i, s, n) ==
    /\ last'.op = "interaction"
    /\ last'.ret
    /\ views'[i].handlers # views[i].handlers
    /\ views'[i].selected_size = s
    /\ n = Len(events[views[i].event].participants)
    /\ n >= 1
    /\ s = 1 \/ n >= s

\* C25: when the creator selects a supported size s and the randomizer
\* succeeds, the event's teams become floor(n/s) pairwise disjoint teams of
\* exactly s ids drawn from the participants at the time of the selection,
\* and team_size becomes s.
C25_SelectionSetsTeams ==
    [][\A i \in 1..Len(views), s \in TEAM_BUTTONS, n \in 0..(NumViewUsers + 1) :
          SelectsSize(i, s, n) =>
             /\ PartitionOf(events[views[i].event].participants, s,
                            events'[views[i].event].teams)
             /\ events'[views[i].event].team_size = s]_vars

C25_Witness ==
    /\ last.op = "interaction"
    /\ last.note = "created"
    /\ views[1].selected_size = 2
    /\ Len(events[E1].participants) = 3
    /\ Len(events[E1].teams) = 1
    /\ Len(events[E1].teams[1]) = 2
    /\ events[E1].team_size = 2

\* the step is the first part of a callback, or a callback resuming
Answered == last'.op = "interaction" /\ last'.ret /\ views' # views
Resumed == last'.op = "callback" /\ views' # views

\* C26: when the creator selects a size but the randomizer fails, or no
\* participant remains, the teams and team_size of the event stay as they
\* were, the prompt is closed, and no exception escapes the callback.
C26_FailedSelectionClosesPrompt ==
    [][/\ (Answered /\ last'.note \in {"empty", "failed"}) =>
             events' = events
       /\ (Resumed /\ last'.note \in {"empty", "failed"}) =>
             /\ last'.ret
             /\ \A i \in 1..Len(views) :
                   views[i].event = last'.event_id => views'[i].state # "live"]_vars

\* the prompt has expired, or its last answer was "no teams"
Closed(v) == v.state = "timed_out" \/ (v.responded /\ v.selected_size = None)

\* C27: once the prompt has expired without an answer, or the creator has
\* selected "no teams", every option is disabled, the prompt accepts no
\* further selection, and the prompt leaves the teams and team_size of the
\* event as they are.
C27_ClosedPromptStaysClosed ==
    [][\A i \in 1..Len(views) :
          /\ Closed(views'[i]) /\ views'[i] # views[i] =>
                /\ views'[i].disabled
                /\ events' = events
          /\ Closed(views[i]) =>
                /\ views'[i].selected_size = views[i].selected_size
                /\ Len(views'[i].handlers) <= Len(views[i].handlers)
                /\ views'[i] # views[i] => events' = events]_vars

\* no user-id occurs twice in the teams
OneTeamEach(teams) ==
    /\ \A i \in 1..Len(teams) : NoDup(teams[i])
    /\ \A i, j \in 1..Len(teams) :
          i # j => Range(teams[i]) \cap Range(teams[j]) = {}

\* C30: in every state reached by joins, leaves, team assignment through the
\* prompt or the randomize command, and clearing of teams, each user-id
\* occurs in at most one team of an event.
C30_OneTeamPerUser ==
    \A e \in DOMAIN events : OneTeamEach(events[e].teams)

C30_Witness ==
    /\ last.op = "remove_participant"
    /\ last.ret
    /\ Len(events[E1].teams) = 3
    /\ Cardinality(TeamIds(events[E1].teams)) = 2
    /\ views[1].selected_size = 1

\* create_balanced_teams has returned for a non-empty list without duplicates
\* and a supported size
Balanced ==
    /\ rt.state = "returned"
    /\ rt.arg # <<>>
    /\ NoDup(rt.arg)
    /\ team_size \in VALID_TEAM_SIZES

\* every id of the list is in exactly one of the teams
EachInOneTeam(ids, teams) ==
    \A u \in Range(ids) :
        Cardinality({<<i, j>> \in (1..Len(teams)) \X (1..Len(ids)) :
                        j <= Len(teams[i]) /\ teams[i][j] = u}) = 1

\* C31: create_balanced_teams discards no participant: for a non-empty list
\* without duplicates and a supported size, every participant is in exactly
\* one returned team; with allow_incomplete the leftovers are one trailing
\* partial team, without it they are spread over the complete teams.
C31_NobodyDiscarded ==
    Balanced =>
       LET n == Len(rt.arg)
           full == n \div team_size
       IN  /\ EachInOneTeam(rt.arg, rt.teams)
           /\ rt.allow_incomplete =>
                 /\ Len(rt.teams) = full + (IF n % team_size = 0 THEN 0 ELSE 1)
                 /\ \A i \in 1..full : Len(rt.teams[i]) = team_size
                 /\ n % team_size # 0 => Len(rt.teams[full + 1]) = n % team_size
           /\ ~rt.allow_incomplete =>
                 /\ Len(rt.teams) = full
                 /\ \A i \in 1..full : Len(rt.teams[i]) >= team_size

\* the step is a call of cleanup_old_events
Cleans == last'.op = "cleanup_old_events" /\ now' = now

\* the stored events created before now minus days days
OlderThan(days) ==
    {e \in DOMAIN events : events[e].created_at < now - days * DAY}

\* C32: cleanup_old_events(days) deletes exactly the events created before
\* now minus days days, returns how many it deleted and leaves every other
\* event stored, on every day of the month and for every days >= 0.
C32_CleanupDeletesTheOld ==
    [][Cleans =>
          /\ DOMAIN events' = DOMAIN events \ OlderThan(last'.user)
          /\ last'.count = Cardinality(OlderThan(last'.user))
          /\ \A e \in DOMAIN events' : events'[e] = events[e]]_vars

\* the attendance report of the event under test
Report == attendance_report(Ev, now)

\* the report's two lists split the participants
ReportPartitions ==
    /\ Range(Report.checked_in_participants) \cap Range(Report.no_show_participants) = {}
    /\ Range(Report.checked_in_participants) \cup Range(Report.no_show_participants)
          = Range(Ev.participants)

\* C33 as stated: in every state reached by joins, leaves and the check-in
\* operations the checked-in list has no duplicates, checked_in_count is at
\* most participant_count, attendance_rate is between 0 and 100, and the
\* report's checked-in and no-show lists partition the participants.
C33_Original ==
    /\ NoDup(Ev.checked_in_participants)
    /\ checked_in_count(Ev) <= participant_count(Ev)
    /\ FLeq(FZero, attendance_rate(Ev)) /\ FLeq(attendance_rate(Ev), F100)
    /\ ReportPartitions

\* every checked-in user is still a participant
NobodyLeftCheckedIn == Range(Ev.checked_in_participants) \subseteq Range(Ev.participants)

\* C33 amended: the checked-in list never has duplicates and the no-show list
\* is exactly the participants who are not checked in; the bound on the
\* count, the rate between 0 and 100 and the partition hold in the states in
\* which no checked-in user has left the event.
C33_AttendanceWhileNobodyLeft ==
    /\ NoDup(Ev.checked_in_participants)
    /\ Range(Report.no_show_participants)
          = Range(Ev.participants) \ Range(Ev.checked_in_participants)
    /\ NoDup(Report.no_show_participants)
    /\ NobodyLeftCheckedIn =>
          /\ checked_in_count(Ev) <= participant_count(Ev)
          /\ FLeq(FZero, attendance_rate(Ev)) /\ FLeq(attendance_rate(Ev), F100)
          /\ ReportPartitions

C33_Witness ==
    /\ last.op = "check_in_participant"
    /\ last.ret
    /\ participant_count(Ev) = 2
    /\ checked_in_count(Ev) = 1
    /\ Len(Report.no_show_participants) = 1
    /\ NobodyLeftCheckedIn
    /\ Report.attendance_rate # FZero

\* C34: after any sequence of create, link, lookup by message id and delete,
\* every entry h -> id of the message index refers to a stored event whose
\* message_id is h; so no entry maps to a deleted id, and no entry makes the
\* lookup of h miss a stored event whose message_id is h.
C34_IndexRefersToStored ==
    /\ \A h \in DOMAIN message_to_event :
          /\ message_to_event[h] \in DOMAIN events
          /\ events[message_to_event[h]].message_id = h
    /\ \A e \in DOMAIN events :
          Truthy(events[e].message_id) =>
             get_event_by_message_id(events, event_ids, message_to_event,
                                     events[e].message_id).ret # NotFound

\* C35: in every state reached by joins, leaves, team assignment from the
\* event's own participants (prompt or randomize command) and clearing of
\* teams, every user-id in a team of the event is a participant of the event,
\* and the number of participants without a team is not negative.
C35_TeamsHoldParticipants ==
    \A e \in DOMAIN events :
        /\ TeamIds(events[e].teams) \subseteq Range(events[e].participants)
        /\ unassigned_players(events[e]) >= 0

C35_Witness ==
    /\ last.op = "remove_participant"
    /\ last.ret
    /\ Ev.teams # <<>>
    /\ Cardinality(TeamIds(Ev.teams)) = 1
    /\ Len(Ev.participants) = 2
    /\ unassigned_players(Ev) = 1
    /\ views[1].selected_size = 2

\* C36 as stated: whenever the event has teams, every team is non-empty and
\* has exactly team_size members.
C36_Original ==
    Ev.teams # <<>> =>
        \A i \in 1..Len(Ev.teams) :
            Ev.teams[i] # <<>> /\ Len(Ev.teams[i]) = Ev.team_size

\* C36 amended: the teams of an event are all non-empty and of exactly
\* team_size members when they are assigned; afterwards no team ever has more
\* than team_size members, and the only change to an assigned team is that a
\* leave removes the leaver from it, which can leave it short or empty.
C36_TeamsFullUntilSomeoneLeaves ==
    [][/\ \A i \in 1..Len(Ev'.teams) : Len(Ev'.teams[i]) <= Ev'.team_size
       /\ (Ev'.teams # Ev.teams /\ last'.op # "remove_participant") =>
             \A i \in 1..Len(Ev'.teams) :
                 Ev'.teams[i] # <<>> /\ Len(Ev'.teams[i]) = Ev'.team_size
       /\ (Ev'.teams # Ev.teams /\ last'.op = "remove_participant") =>
             /\ last'.ret
             /\ Len(Ev'.teams) = Len(Ev.teams)
             /\ \E i \in 1..Len(Ev.teams) :
                   /\ last'.user \in Range(Ev.teams[i])
                   /\ Ev'.teams[i] = ListRemove(Ev.teams[i], last'.user)
                   /\ \A j \in 1..Len(Ev.teams) : j # i => Ev'.teams[j] = Ev.teams[j]]_vars

C36_Witness ==
    /\ last.op = "remove_participant"
    /\ last.ret
    /\ Ev.team_size = 1
    /\ Len(Ev.teams) = 3
    /\ \E i \in 1..3 : Ev.teams[i] = <<>>
    /\ \E i \in 1..3 : Len(Ev.teams[i]) = 1

\* C37: a prompt is consumed at most once: once the callback of one selection
\* of the creator has begun, no further interaction on the same prompt, a
\* second press during the first one's message edit included, changes the
\* teams or team_size of the event.
C37_PromptConsumedOnce ==
    [][\A i \in 1..Len(views) :
          (views[i].responded /\ views'[i] # views[i]) =>
             /\ events'[views[i].event].teams = events[views[i].event].teams
             /\ events'[views[i].event].team_size = events[views[i].event].team_size]_vars

\* the step is the creator's selection on a prompt never answered before,
\* for an event that has teams
SelectsOverTeams == Answered /\ last'.manual

\* C38 as stated: a size selection on the prompt never replaces teams that
\* exist at selection time; teams assigned by a randomize command after the
\* prompt was posted are left unchanged by the later selection.
C38_Original ==
    [][SelectsOverTeams =>
          /\ Ev'.teams = Ev.teams
          /\ Ev'.team_size = Ev.team_size]_vars

\* C38 amended: the event is tested for teams only when the prompt is posted;
\* a later size selection for which the randomizer succeeds assigns new teams
\* drawn from the participants of that moment and the selected team_size,
\* whatever teams a randomize command has assigned meanwhile; a selection
\* that fails, or "no teams", leaves them as they are.
C38_SelectionReplacesTeams ==
    [][SelectsOverTeams =>
          IF last'.note = "created"
          THEN /\ PartitionOf(Ev.participants, views'[1].selected_size, Ev'.teams)
               /\ Ev'.team_size = views'[1].selected_size
          ELSE /\ Ev'.teams = Ev.teams
               /\ Ev'.team_size = Ev.team_size]_vars

C38_Witness ==
    /\ last.op = "interaction"
    /\ last.ret
    /\ last.manual
    /\ last.note = "created"
    /\ Ev.team_size = 1
    /\ Len(Ev.teams) = 3
    /\ Len(views[1].handlers) = 1

\* C39: a create or delete on the registry while a scan is suspended in a
\* send does not keep that scan from examining the remaining events in the
\* same pass, nor delay the next scan beyond the 15 s interval: whenever a
\* scan ends, it has gone through the whole registry and the loop sleeps 15 s.
C39_RegistryChangeHarmless ==
    [][(task.pc = "next" /\ task'.pc = "sleep") =>
          /\ task.it > Len(event_ids)
          /\ task'.wake_at = now + SCAN_INTERVAL]_vars

\* the scan has come to event e and finds it in the firing window, not latched
Found(e) ==
    /\ task.pc = "next"
    /\ Len(event_ids) = task.size
    /\ task.it <= Len(event_ids)
    /\ Current = e
    /\ ShouldRemind(events[e], task.scan_now)

\* C40: when a scan that is not cancelled finds an event in the firing window
\* with reminder_sent false, reminder_sent is true when the processing of
\* that event ends, whether or not a notification was posted (no thread,
\* thread not resolved, no participants, failed post); and once reminder_sent
\* is true nothing more is posted to the event's thread by any later scan,
\* even if a thread or participants are added while it is in the window.
C40_LatchedWhateverWasPosted ==
    [][ \A e \in SchedEvents :
          /\ ((Found(e) \/ Sending(e)) /\ task' # task /\ ~Sending(e)')
                => /\ events'[e].reminder_sent
                   /\ task'.pc = "next"
          /\ events[e].reminder_sent
                => /\ events'[e].reminder_sent
                   /\ Reminders(e)' = Reminders(e)
                   /\ ~Found(e)' /\ ~Sending(e)' ]_vars

\* C40 witness: E1 was latched without a notification; a participant and a
\* thread have arrived since, and a later scan has passed E1 while it is in
\* the window
C40_Witness ==
    /\ events[E1].reminder_sent
    /\ Reminders(E1) = 0
    /\ events[E1].thread_id # None
    /\ events[E1].participants # <<>>
    /\ last.op \in {"add_participant", "create_thread"}
    /\ last.event_id = E1 /\ last.ret
    /\ task.pc = "next" /\ task.it = 2 /\ task.scan_now > 0
    /\ InReminderWindow(events[E1], task.scan_now)

====
